---- MODULE Spec2Model ----
(***************************************************************************)
(* Streaming gesture recognition pipeline of LIA-WEB.                      *)
(*                                                                         *)
(* GestureRecognizer (lia-web/scripts/reconhecer_gestos.py): a bounded     *)
(* window of pose samples, a counter of hand-absent frames, a confidence   *)
(* gate, a majority vote over the accepted labels and the emission rule.   *)
(* Confidences are integers in percent (0.7 is 70).  The pose detector and *)
(* the classifier are external: their results are the inputs of a frame.   *)
(***************************************************************************)
EXTENDS Integers, Sequences, FiniteSets, TLC

\* ---------------------------------------------------------------- bounds
\* Pipeline parameters, scaled down (30 / 15 / 10 in the source).
SEQUENCE_LENGTH == 4
HISTORY_SIZE == 3
RESET_THRESHOLD == 2

\* Default confidence gate, in percent (MIN_CONFIDENCE = 0.7).
MIN_CONFIDENCE == 70

\* Recognitions and label runs that the history of a run keeps apart.
MaxEventos == 2
MaxRuns == 2

\* Longest history on which the vote is checked on its own.
MaxVotos == 4

\* Landmarks of one hand (21 in MediaPipe) and hands in a detector result on
\* which the encoder is checked on its own.
PONTOS_POR_MAO == 2
MaxMaos == 3

\* coletar_gestos.py: MIN_FRAMES (10 for SEQUENCE_LENGTH = 30), scaled with the window.
MIN_FRAMES == 2
\* Gesture-name prompts answered with a name in one run of the collector.
MaxPrompts == 2

\* GUI: levels started in one run of the application, and atualizar_frame
\* callbacks pending at a time.
MaxInicios == 3
MaxLacos == 2

\* Reads of the camera that fail in a row within one handler.
MaxFalhas == 1

\* Handlers of one run that leave the plain course of a level: a click on the
\* camera button, a level left before its end, a handler in which the camera
\* fails or the processing of the frame raises.
MaxIncidentes == 2

\* frames_sem_maos is unbounded in the source; frames beyond this are not explored.
MaxAusentes == RESET_THRESHOLD + 2

None == "None"

\* History value: more entries than the history keeps apart.
Muitos == "*"

\* self.classes: the label set of the classifier (non-empty strings).
Labels == {"A", "B", "C"}

\* Two of them are enough where the history of the run is not kept.
LabelsAB == {"A", "B"}

\* Results of processar_landmarks that the window can tell apart.
Samples == {1, 2}

\* Confidence of the arg-max class: below, at and above the default gate.
Confidences == {MIN_CONFIDENCE - 10, MIN_CONFIDENCE, MIN_CONFIDENCE + 20}

VARIABLES
    min_confidence,       \* self.min_confidence (constructor argument)
    buffer,               \* self.buffer: deque(maxlen=SEQUENCE_LENGTH)
    prediction_history,   \* self.prediction_history: deque(maxlen=HISTORY_SIZE)
    frames_sem_maos,      \* self.frames_sem_maos
    ultimo_gesto,         \* self.ultimo_gesto
    ultima_confianca,     \* self.ultima_confianca
    novo_reconhecimento,  \* fourth component of the last processar_frame result
    chamada,              \* the last call and its inputs
    \* ---- history of the run (not program state)
    eventos,              \* labels of the recognitions reported since the last fresh state
    padrao,               \* accepted labels since the last fresh state, runs collapsed
    corrida,              \* accepted predictions in the current run of one label
    desde,                \* accepted labels since the last recognition, runs collapsed
    presentes,            \* frames with hands since the last recognition, counted
                          \* up to SEQUENCE_LENGTH (its value before any recognition)
    cenario,              \* position in the scripted session ("livre": not scripted)
    \* ---- the main loop and the functions checked on their own
    laco,                 \* main's while loop: "rodando", or "interrompido" by an exception
    entrada,              \* argument of the function checked on its own (None: not in use)
    saida,                \* its result (None, or <<>> for a sequence: not computed yet)
    \* ---- coletar_gestos.py (lia-web): main
    coleta,               \* the collection loop: its position and its local variables
    \* ---- libras_alfabeto_projeto: app/reconhecer/reconhecer_gestos.py and GUI/main.py
    legado,               \* the legacy recognition loop: its module-level variables
    gui                   \* AplicativoLibras: its fields and the pending Tk callbacks

pvars == <<min_confidence, buffer, prediction_history, frames_sem_maos,
           ultimo_gesto, ultima_confianca, novo_reconhecimento, chamada>>

\* The other programs of the repository, idle while the recognizer runs.
ovars == <<coleta, legado, gui>>

avars == <<laco, entrada, saida, ovars>>

\* ------------------------------------------------------------ pure helpers

\* Variant: the deque is not bounded.
DequeAppendSemLimite(d, x, maxlen) == Append(d, x)

\* Variant: a full deque drops its rightmost item.
DequeAppendTiraNovo(d, x, maxlen) ==
    IF Len(d) >= maxlen THEN Append(SubSeq(d, 1, Len(d) - 1), x) ELSE Append(d, x)

\* Variant: a full deque refuses the new item.
DequeAppendRecusa(d, x, maxlen) ==
    IF Len(d) >= maxlen THEN d ELSE Append(d, x)

\* deque.append on a deque with maxlen: a full deque drops its leftmost item.
DequeAppend(d, x, maxlen) ==
    IF Len(d) >= maxlen THEN Append(Tail(d), x) ELSE Append(d, x)

\* contagem[g] after the counting loop over the history.
Contagem(h, g) == Cardinality({i \in 1..Len(h) : h[i] = g})

\* Variant: among the labels with the highest count the one seen last wins.
MaisVotadoUltimo(h) ==
    h[CHOOSE i \in 1..Len(h) :
        /\ \A j \in 1..Len(h) : Contagem(h, h[j]) <= Contagem(h, h[i])
        /\ \A j \in 1..(i - 1) : h[j] # h[i]
        /\ \A j \in (i + 1)..Len(h) :
              Contagem(h, h[j]) = Contagem(h, h[i]) => \E k \in 1..i : h[k] = h[j]]

\* max(contagem.items(), key=count)[0]: the dict iterates in insertion order,
\* which is first-occurrence order in the history, and max keeps the first maximum.
MaisVotado(h) ==
    h[CHOOSE i \in 1..Len(h) :
        /\ \A j \in 1..Len(h) : Contagem(h, h[j]) <= Contagem(h, h[i])
        /\ \A j \in 1..(i - 1) : Contagem(h, h[j]) < Contagem(h, h[i])]

\* Variant: there is no gate, every prediction is accepted.
RejeitadaNunca(c, minc) == FALSE

\* Variant: the gate also discards a confidence equal to the minimum.
RejeitadaNoLimite(c, minc) == c <= minc

\* The confidence gate of reconhecer: TRUE when the prediction is discarded.
Rejeitada(c, minc) == c < minc

\* reconhecer(): buf is self.buffer, hist self.prediction_history, (g, c) the
\* arg-max class and its probability as the model returns them.
\* Result: the returned pair, the history afterwards, whether the model ran.
Reconhecer(buf, hist, g, c, minc) ==
    IF Len(buf) < SEQUENCE_LENGTH
    THEN [gesto |-> None, confianca |-> 0, hist |-> hist, inferiu |-> FALSE]
    ELSE IF Rejeitada(c, minc)
    THEN [gesto |-> None, confianca |-> c, hist |-> hist, inferiu |-> TRUE]
    ELSE LET h2 == DequeAppend(hist, g, HISTORY_SIZE)
         IN  [gesto |-> MaisVotado(h2), confianca |-> c, hist |-> h2, inferiu |-> TRUE]

\* Variant: every accepted prediction is reported, repeated or not.
EmiteSempre(gesto, ultimo) == gesto # None

\* The test of processar_frame that turns a reconhecer result into an event.
Emite(gesto, ultimo) == gesto # None /\ gesto # ultimo

\* Variant: the window is kept after a recognition.
BufferAposEmissaoMantido(buf) == buf

\* The buffer after a recognition.
BufferAposEmissao(buf) == <<>>

\* Variant: the history is cleared with the window.
HistoricoAposEmissaoLimpo(hist) == <<>>

\* The history after a recognition: processar_frame clears the buffer only.
HistoricoAposEmissao(hist) == hist

\* Variant: the reset does not look at the buffer.
DeveResetarSemGuarda(n, buf) == n > RESET_THRESHOLD

\* Variant: the reset already happens when the count reaches the threshold.
DeveResetarNoLimite(n, buf) == n >= RESET_THRESHOLD /\ Len(buf) > 0

\* The absence test of processar_frame: n is frames_sem_maos after the increment.
DeveResetar(n, buf) == n > RESET_THRESHOLD /\ Len(buf) > 0

\* Variant: the count stops once it has passed RESET_THRESHOLD.
ContaAusenteComTeto(n) == IF n > RESET_THRESHOLD THEN n ELSE n + 1

\* self.frames_sem_maos += 1
ContaAusente(n) == n + 1

\* ---------------------------------------------------------------- actions

\* Record of a call: the operation, what the detector and the classifier gave
\* it (maos, amostra, gesto, confianca), whether the model was run, and the
\* sizes of the window and of the history when the call began.
Chamada(op, maos, s, inferiu, g, c) ==
    [op |-> op, maos |-> maos, amostra |-> s, inferiu |-> inferiu,
     gesto |-> g, confianca |-> c,
     tam |-> Len(buffer), votos |-> Len(prediction_history)]

\* Variant: the inference step is outside the test for hands, so a frame
\* without hands that leaves a full buffer asks the classifier too.
FrameSemMaosInfere ==
    LET limpa == DeveResetar(ContaAusente(frames_sem_maos), buffer)
        buf1 == IF limpa THEN <<>> ELSE buffer
        hist1 == IF limpa THEN <<>> ELSE prediction_history
    IN  /\ frames_sem_maos < MaxAusentes
        /\ frames_sem_maos' = ContaAusente(frames_sem_maos)
        /\ UNCHANGED min_confidence
        /\ IF Len(buf1) = SEQUENCE_LENGTH
           THEN \E g \in LabelsAB, c \in Confidences :
                  LET r == Reconhecer(buf1, hist1, g, c, min_confidence)
                      emite == Emite(r.gesto, ultimo_gesto)
                  IN  /\ prediction_history' = r.hist
                      /\ buffer' = IF emite THEN BufferAposEmissao(buf1) ELSE buf1
                      /\ ultimo_gesto' = IF emite THEN r.gesto ELSE ultimo_gesto
                      /\ ultima_confianca' = IF emite THEN r.confianca ELSE ultima_confianca
                      /\ novo_reconhecimento' = emite
                      /\ chamada' = Chamada("processar_frame", FALSE, None, TRUE, g, c)
           ELSE /\ buffer' = buf1
                /\ prediction_history' = hist1
                /\ novo_reconhecimento' = FALSE
                /\ chamada' = Chamada("processar_frame", FALSE, None, FALSE, None, 0)
                /\ UNCHANGED <<ultimo_gesto, ultima_confianca>>

\* Variant: a frame without hands pushes an all-zero sample (0) into the buffer.
FrameSemMaosEmpurra ==
    LET buf1 == DequeAppend(buffer, 0, SEQUENCE_LENGTH)
    IN  /\ frames_sem_maos < MaxAusentes
        /\ frames_sem_maos' = ContaAusente(frames_sem_maos)
        /\ IF DeveResetar(ContaAusente(frames_sem_maos), buf1)
           THEN buffer' = <<>> /\ prediction_history' = <<>>
           ELSE buffer' = buf1 /\ UNCHANGED prediction_history
        /\ novo_reconhecimento' = FALSE
        /\ chamada' = Chamada("processar_frame", FALSE, None, FALSE, None, 0)
        /\ UNCHANGED <<min_confidence, ultimo_gesto, ultima_confianca>>
\* Variant: the absence reset also forgets the last gesture reported.
FrameSemMaosEsquece ==
    LET limpa == DeveResetar(ContaAusente(frames_sem_maos), buffer)
    IN  /\ frames_sem_maos < MaxAusentes
        /\ frames_sem_maos' = ContaAusente(frames_sem_maos)
        /\ IF limpa
           THEN buffer' = <<>> /\ prediction_history' = <<>> /\ ultimo_gesto' = None
           ELSE UNCHANGED <<buffer, prediction_history, ultimo_gesto>>
        /\ novo_reconhecimento' = FALSE
        /\ chamada' = Chamada("processar_frame", FALSE, None, FALSE, None, 0)
        /\ UNCHANGED <<min_confidence, ultima_confianca>>

\* processar_frame on a frame without hands.
FrameSemMaos ==
    /\ frames_sem_maos < MaxAusentes
    /\ frames_sem_maos' = ContaAusente(frames_sem_maos)
    /\ IF DeveResetar(ContaAusente(frames_sem_maos), buffer)
       THEN buffer' = <<>> /\ prediction_history' = <<>>
       ELSE UNCHANGED <<buffer, prediction_history>>
    /\ novo_reconhecimento' = FALSE
    /\ chamada' = Chamada("processar_frame", FALSE, None, FALSE, None, 0)
    /\ UNCHANGED <<min_confidence, ultimo_gesto, ultima_confianca>>

\* processar_frame on a frame with hands: s is the encoded sample, (g, c) what
\* the classifier answers if it is asked.
FrameComMaos(s, g, c) ==
    LET buf1 == DequeAppend(buffer, s, SEQUENCE_LENGTH)
        cheio == Len(buf1) = SEQUENCE_LENGTH
        r == Reconhecer(buf1, prediction_history, g, c, min_confidence)
        emite == cheio /\ Emite(r.gesto, ultimo_gesto)
    IN  /\ frames_sem_maos' = 0
        /\ IF cheio
           THEN /\ prediction_history' =
                      IF emite THEN HistoricoAposEmissao(r.hist) ELSE r.hist
                /\ buffer' = IF emite THEN BufferAposEmissao(buf1) ELSE buf1
                /\ ultimo_gesto' = IF emite THEN r.gesto ELSE ultimo_gesto
                /\ ultima_confianca' = IF emite THEN r.confianca ELSE ultima_confianca
                /\ novo_reconhecimento' = emite
                /\ chamada' = Chamada("processar_frame", TRUE, s, r.inferiu, g, c)
           ELSE /\ buffer' = buf1
                /\ novo_reconhecimento' = FALSE
                /\ chamada' = Chamada("processar_frame", TRUE, s, FALSE, None, 0)
                /\ UNCHANGED <<prediction_history, ultimo_gesto, ultima_confianca>>
        /\ UNCHANGED min_confidence

\* processar_frame(frame): the detector finds hands or not; the classifier
\* answers only when the window is full after the push (None otherwise).
ProcessarFrame(SS, LL) ==
    \/ FrameSemMaos
    \/ \E s \in SS :
          IF Len(DequeAppend(buffer, s, SEQUENCE_LENGTH)) < SEQUENCE_LENGTH
          THEN FrameComMaos(s, None, 0)
          ELSE \E g \in LL, c \in Confidences : FrameComMaos(s, g, c)

\* What model.predict does instead of answering when it fails.
Excecao == "Excecao"

\* processar_frame on a frame with hands that fills the window, when
\* model.predict raises inside reconhecer: the counter is already 0 and the
\* sample already in the buffer, nothing else has been assigned, and the
\* exception leaves processar_frame: no tuple is returned.
FrameComExcecao(s) ==
    LET buf1 == DequeAppend(buffer, s, SEQUENCE_LENGTH)
    IN  /\ Len(buf1) = SEQUENCE_LENGTH
        /\ frames_sem_maos' = 0
        /\ buffer' = buf1
        /\ novo_reconhecimento' = FALSE
        /\ chamada' = Chamada("processar_frame", TRUE, s, TRUE, Excecao, 0)
        /\ UNCHANGED <<min_confidence, prediction_history, ultimo_gesto, ultima_confianca>>

\* Variant: reset() forgets the window and the votes but keeps the last gesture.
ResetMantemGesto ==
    /\ buffer' = <<>>
    /\ prediction_history' = <<>>
    /\ frames_sem_maos' = 0
    /\ novo_reconhecimento' = FALSE
    /\ chamada' = Chamada("reset", FALSE, None, FALSE, None, 0)
    /\ UNCHANGED <<min_confidence, ultimo_gesto, ultima_confianca>>

\* reset(): key R of the main loop.
Reset ==
    /\ buffer' = <<>>
    /\ prediction_history' = <<>>
    /\ frames_sem_maos' = 0
    /\ ultimo_gesto' = None
    /\ ultima_confianca' = 0
    /\ novo_reconhecimento' = FALSE
    /\ chamada' = Chamada("reset", FALSE, None, FALSE, None, 0)
    /\ UNCHANGED min_confidence

\* __init__: the state of a new recognizer.
InitReconhecedor(minc) ==
    /\ min_confidence = minc
    /\ buffer = <<>>
    /\ prediction_history = <<>>
    /\ frames_sem_maos = 0
    /\ ultimo_gesto = None
    /\ ultima_confianca = 0
    /\ novo_reconhecimento = FALSE
    /\ chamada = [op |-> "init", maos |-> FALSE, amostra |-> None, inferiu |-> FALSE,
                  gesto |-> None, confianca |-> 0, tam |-> 0, votos |-> 0]

\* ---------------------------------------------------------------- history

tvars == <<eventos, padrao, corrida, desde, presentes>>

Min(a, b) == IF a < b THEN a ELSE b

\* The call just made (chamada') ran the model and its prediction passed the gate.
Aceita(ch, minc) == ch.inferiu /\ ~Rejeitada(ch.confianca, minc)

\* The collapsed runs p with one more accepted label g; only two runs are kept apart.
Colapsa(p, g) ==
    IF p = <<Muitos>> THEN p
    ELSE IF p # <<>> /\ p[Len(p)] = g THEN p
    ELSE IF Len(p) >= 2 THEN <<Muitos>>
    ELSE Append(p, g)

InitHistoria ==
    /\ eventos = <<>>
    /\ padrao = <<>>
    /\ corrida = 0
    /\ desde = <<>>
    /\ presentes = SEQUENCE_LENGTH

\* Bookkeeping of a processar_frame call, from its inputs and its result.
RegistraFrame ==
    LET aceita == Aceita(chamada', min_confidence)
        g == chamada'.gesto
        mesma == padrao # <<>> /\ padrao[Len(padrao)] = g
    IN  /\ eventos' =
              IF ~novo_reconhecimento' THEN eventos
              ELSE IF eventos = <<Muitos>> \/ Len(eventos) >= MaxEventos THEN <<Muitos>>
              ELSE Append(eventos, ultimo_gesto')
        /\ padrao' =
              IF ~aceita \/ mesma \/ padrao = <<Muitos>> THEN padrao
              ELSE IF Len(padrao) >= MaxRuns THEN <<Muitos>>
              ELSE Append(padrao, g)
        /\ corrida' =
              IF ~aceita THEN corrida
              ELSE IF padrao = <<Muitos>> THEN 0
              ELSE IF mesma THEN Min(corrida + 1, HISTORY_SIZE + 1)
              ELSE IF Len(padrao) >= MaxRuns THEN 0
              ELSE 1
        /\ desde' =
              IF novo_reconhecimento' THEN <<>>
              ELSE IF aceita THEN Colapsa(desde, g)
              ELSE desde
        /\ presentes' =
              IF novo_reconhecimento' THEN 0
              ELSE IF chamada'.maos
              THEN Min(presentes + 1, SEQUENCE_LENGTH)
              ELSE presentes

\* Bookkeeping of reset(): the recognizer is fresh again.
RegistraReset ==
    /\ eventos' = <<>>
    /\ padrao' = <<>>
    /\ corrida' = 0
    /\ desde' = <<>>
    /\ UNCHANGED presentes

\* ---------------------------------------------------------- specification

vars == <<pvars, tvars, cenario, avars>>

\* The other programs have not been started.
ColetaParada == coleta = [pc |-> "parado"]
LegadoParado == legado = [pc |-> "parado"]
GuiParada == gui = [pc |-> "parado"]

InitOutros ==
    /\ ColetaParada
    /\ LegadoParado
    /\ GuiParada

\* main before its loop: the loop is about to run, no function is under check.
InitLaco ==
    /\ laco = "rodando"
    /\ entrada = None
    /\ saida = None
    /\ InitOutros

Init ==
    /\ InitReconhecedor(MIN_CONFIDENCE)
    /\ InitHistoria
    /\ cenario = [fase |-> "livre", n |-> 0, extras |-> 0]
    /\ InitLaco

\* The main loop: one processar_frame per captured frame, reset() on key R.
Next ==
    \/ ProcessarFrame(Samples, LabelsAB) /\ UNCHANGED <<tvars, cenario, avars>>
    \/ Reset /\ UNCHANGED <<tvars, cenario, avars>>

Spec == Init /\ [][Next]_vars

\* The same loop with the history of the run kept; the samples are not told apart.
NextH ==
    \/ ProcessarFrame({1}, Labels) /\ RegistraFrame /\ UNCHANGED <<cenario, avars>>
    \/ Reset /\ RegistraReset /\ UNCHANGED <<cenario, avars>>

SpecH == Init /\ [][NextH]_vars

\* ------------------------------------------------------- scripted session
\* A session with min_confidence 0.6: frames with hands while the classifier
\* answers A at 0.9 (SEQUENCE_LENGTH of them, then up to MaxExtras more),
\* RESET_THRESHOLD + 1 frames without hands, then frames with hands while the
\* classifier answers B at 0.8 (SEQUENCE_LENGTH of them and one more).
\* cenario.n counts the frames of the current part, cenario.extras the frames
\* of the first part beyond SEQUENCE_LENGTH.

MaxExtras == SEQUENCE_LENGTH + 1

\* A frame with hands in front of a classifier that answers (g, c) whenever asked.
FrameClassificador(s, g, c) ==
    IF Len(DequeAppend(buffer, s, SEQUENCE_LENGTH)) < SEQUENCE_LENGTH
    THEN FrameComMaos(s, None, 0)
    ELSE FrameComMaos(s, g, c)

InitCenario ==
    /\ InitReconhecedor(60)
    /\ InitHistoria
    /\ cenario = [fase |-> "A", n |-> 0, extras |-> 0]
    /\ InitLaco

CenarioA ==
    /\ cenario.fase = "A"
    /\ cenario.n < SEQUENCE_LENGTH + MaxExtras
    /\ \E s \in Samples : FrameClassificador(s, "A", 90)
    /\ RegistraFrame
    /\ cenario' = [cenario EXCEPT !.n = @ + 1]
    /\ UNCHANGED avars

CenarioAusente ==
    /\ \/ cenario.fase = "A" /\ cenario.n >= SEQUENCE_LENGTH
       \/ cenario.fase = "ausente" /\ cenario.n < RESET_THRESHOLD + 1
    /\ FrameSemMaos
    /\ RegistraFrame
    /\ cenario' = IF cenario.fase = "ausente"
                  THEN [cenario EXCEPT !.n = @ + 1]
                  ELSE [fase |-> "ausente", n |-> 1,
                        extras |-> cenario.n - SEQUENCE_LENGTH]
    /\ UNCHANGED avars

CenarioB ==
    /\ \/ cenario.fase = "ausente" /\ cenario.n = RESET_THRESHOLD + 1
       \/ cenario.fase = "B" /\ cenario.n < SEQUENCE_LENGTH + 1
    /\ \E s \in Samples : FrameClassificador(s, "B", 80)
    /\ RegistraFrame
    /\ cenario' = IF cenario.fase = "B"
                  THEN [cenario EXCEPT !.n = @ + 1]
                  ELSE [cenario EXCEPT !.fase = "B", !.n = 1]
    /\ UNCHANGED avars

NextCenario == CenarioA \/ CenarioAusente \/ CenarioB

SpecCenario == InitCenario /\ [][NextCenario]_vars

\* ------------------------------------------------- loop with a failing model
\* main's loop when model.predict may raise.  The try of main has one except
\* clause, for KeyboardInterrupt: any other exception of processar_frame
\* leaves the while loop through finally and ends the session.

IteracaoNormal ==
    /\ laco = "rodando"
    /\ ProcessarFrame(Samples, LabelsAB)
    /\ UNCHANGED <<tvars, cenario, avars>>

IteracaoReset ==
    /\ laco = "rodando"
    /\ Reset
    /\ UNCHANGED <<tvars, cenario, avars>>

IteracaoComExcecao ==
    /\ laco = "rodando"
    /\ \E s \in Samples : FrameComExcecao(s)
    /\ laco' = "interrompido"
    /\ UNCHANGED <<tvars, cenario, entrada, saida, ovars>>

NextFalha == IteracaoNormal \/ IteracaoReset \/ IteracaoComExcecao

SpecFalha == Init /\ [][NextFalha]_vars

\* --------------------------------------------------------- the vote alone
\* The majority vote of reconhecer on every history of up to MaxVotos labels.

\* Contents of prediction_history when the vote is taken (never empty: the
\* label of the prediction has just been appended).
Historicos == UNION {[1..n -> Labels] : n \in 1..MaxVotos}

InitVoto ==
    /\ InitReconhecedor(MIN_CONFIDENCE)
    /\ InitHistoria
    /\ cenario = [fase |-> "voto", n |-> 0, extras |-> 0]
    /\ laco = "rodando"
    /\ entrada \in Historicos
    /\ saida = None
    /\ InitOutros

\* The counting loop and max(...) of reconhecer on the history entrada.
Vota ==
    /\ saida = None
    /\ saida' = MaisVotado(entrada)
    /\ UNCHANGED <<pvars, tvars, cenario, laco, entrada, ovars>>

NextVoto == Vota

SpecVoto == InitVoto /\ [][NextVoto]_vars

\* ------------------------------------------------------ the encoder alone
\* processar_landmarks on every detector result of up to MaxMaos hands.  A
\* hand has PONTOS_POR_MAO landmarks (21 in MediaPipe), a landmark is the
\* triple <<x, y, z>>, and the encoder keeps NUM_LANDMARKS of them (42).

NUM_LANDMARKS == 2 * PONTOS_POR_MAO

\* Landmarks the detector can report.
Pontos == {<<1, 2, 3>>, <<4, 5, 6>>}

\* hand.landmark of one detected hand.
Maos == [1..PONTOS_POR_MAO -> Pontos]

\* results.multi_hand_landmarks: the detected hands, in detection order.
Deteccoes == UNION {[1..k -> Maos] : k \in 0..MaxMaos}

\* The landmarks of all the hands, in the order the two for loops visit them.
RECURSIVE TodosOsPontos(_)
TodosOsPontos(maos) ==
    IF maos = <<>> THEN <<>> ELSE Head(maos) \o TodosOsPontos(Tail(maos))

\* np.array(landmarks).flatten(): the coordinates of the triples, row by row.
Achata(pts) == [i \in 1..(3 * Len(pts)) |-> pts[((i - 1) \div 3) + 1][((i - 1) % 3) + 1]]

\* Variant: the list of landmarks is not cut before it is padded.
ProcessarLandmarksSemCorte(maos) ==
    LET todos == TodosOsPontos(maos)
        zeros == [i \in 1..(NUM_LANDMARKS - Len(todos)) |-> <<0, 0, 0>>]
    IN  Achata(todos \o zeros)

\* processar_landmarks(results): landmarks[:42], padded with [0.0, 0.0, 0.0]
\* up to 42, flattened.
ProcessarLandmarks(maos) ==
    LET todos == TodosOsPontos(maos)
        cortados == SubSeq(todos, 1, Min(Len(todos), NUM_LANDMARKS))
        zeros == [i \in 1..(NUM_LANDMARKS - Len(cortados)) |-> <<0, 0, 0>>]
    IN  Achata(cortados \o zeros)

InitLandmarks ==
    /\ InitReconhecedor(MIN_CONFIDENCE)
    /\ InitHistoria
    /\ cenario = [fase |-> "landmarks", n |-> 0, extras |-> 0]
    /\ laco = "rodando"
    /\ entrada \in Deteccoes
    /\ saida = <<>>
    /\ InitOutros

\* The sample of the detector result entrada (<<>>: not encoded yet).
Codifica ==
    /\ saida = <<>>
    /\ saida' = ProcessarLandmarks(entrada)
    /\ UNCHANGED <<pvars, tvars, cenario, laco, entrada, ovars>>

NextLandmarks == Codifica

SpecLandmarks == InitLandmarks /\ [][NextLandmarks]_vars

\* ------------------------------------------------ coletar_gestos.py (lia-web)
\* The recognizer at rest: the state of the programs that are not being run.
InitRepouso ==
    /\ InitReconhecedor(MIN_CONFIDENCE)
    /\ InitHistoria
    /\ cenario = [fase |-> "livre", n |-> 0, extras |-> 0]
    /\ laco = "parado"
    /\ entrada = None
    /\ saida = None

\* What the user may type at the prompt, and str.strip().upper() / str.lower() on it.
Digitados == {"a", "A", "sair", "SAIR", " a", ""}
Upper(x) == CASE x \in {"a", "A", " a"} -> "A"
              [] x \in {"sair", "SAIR"} -> "SAIR"
              [] OTHER -> ""
Lower(x) == CASE x = "A" -> "a"
              [] x = "SAIR" -> "sair"
              [] OTHER -> x

\* Keys returned by cv2.waitKey(1) & 0xFF: 32, 27, or anything else (255: no key).
Teclas == {32, 27, 255}

\* padronizar_frames: cut to SEQUENCE_LENGTH frames or pad with zero frames.
PadronizarFrames(frames) ==
    IF Len(frames) > SEQUENCE_LENGTH THEN SubSeq(frames, 1, SEQUENCE_LENGTH)
    ELSE IF Len(frames) < SEQUENCE_LENGTH
         THEN frames \o [i \in 1..(SEQUENCE_LENGTH - Len(frames)) |-> 0]
         ELSE frames

\* The test of line 294 on the buffer when SPACE stops a recording.
PodeSalvarSempre(buf) == TRUE

\* Variant: the test is strict.
PodeSalvarEstrito(buf) == Len(buf) > MIN_FRAMES

PodeSalvar(buf) == Len(buf) >= MIN_FRAMES

\* The test of line 308 after the keys were handled.
BufferCheioNunca(grav, buf) == FALSE

BufferCheio(grav, buf) == grav /\ Len(buf) >= SEQUENCE_LENGTH

\* salvar_gesto: one row appended to the CSV. The row keeps, next to the name and
\* the standardized frames, the number of frames handed over, the value of
\* gravando and the prompt it was saved under (what the claims speak about).
SalvarGesto(csv, nome, frames, grav, prompt) ==
    Append(csv, [nome |-> nome, frames |-> PadronizarFrames(frames),
                 capturados |-> Len(frames), gravando |-> grav, prompt |-> prompt])

\* main after the camera was opened (lines 226-237): waiting at the first prompt.
InitColeta ==
    /\ InitRepouso
    /\ LegadoParado
    /\ GuiParada
    /\ coleta = [pc |-> "prompt", nome |-> "", buffer |-> <<>>, gravando |-> FALSE,
                 csv |-> <<>>, prompts |-> 0,
                 ultima |-> [ret |-> FALSE, maos |-> FALSE, tecla |-> 255]]

\* Lines 242-253: the prompt is answered; 'sair' or an empty name ends the loop.
ColetaPrompt(digitado) ==
    /\ coleta.pc = "prompt"
    /\ LET gesto_nome == Upper(digitado) IN
       IF Lower(gesto_nome) = "sair" \/ gesto_nome = ""
       THEN coleta' = [coleta EXCEPT !.pc = "fim"]
       ELSE /\ coleta.prompts < MaxPrompts
            /\ coleta' = [coleta EXCEPT !.pc = "captura", !.nome = gesto_nome,
                                        !.buffer = <<>>, !.gravando = FALSE,
                                        !.prompts = @ + 1]
    /\ UNCHANGED <<pvars, tvars, cenario, laco, entrada, saida, legado, gui>>

\* Lines 255-313: one iteration of the inner loop, with the frame read (ret), the
\* detection (maos, amostra) and the key as inputs.
ColetaFrame(ret, maos, s, tecla) ==
    /\ coleta.pc = "captura"
    /\ LET u == [ret |-> ret, maos |-> ret /\ maos, tecla |-> IF ret THEN tecla ELSE 255]
           buf1 == IF maos /\ coleta.gravando THEN Append(coleta.buffer, s)
                   ELSE coleta.buffer
           salvo == SalvarGesto(coleta.csv, coleta.nome, buf1, coleta.gravando,
                                coleta.prompts)
       IN
       IF ~ret
       THEN coleta' = [coleta EXCEPT !.ultima = u]
       ELSE IF tecla = 32
       THEN IF ~coleta.gravando
            THEN \* recording starts; line 308 then sees the new, empty buffer
                 IF BufferCheio(TRUE, <<>>)
                 THEN coleta' = [coleta EXCEPT !.ultima = u, !.gravando = TRUE,
                                   !.buffer = <<>>, !.pc = "prompt",
                                   !.csv = SalvarGesto(coleta.csv, coleta.nome, <<>>,
                                                       TRUE, coleta.prompts)]
                 ELSE coleta' = [coleta EXCEPT !.ultima = u, !.gravando = TRUE,
                                               !.buffer = <<>>]
            ELSE IF PodeSalvar(buf1)
                 THEN coleta' = [coleta EXCEPT !.ultima = u, !.buffer = buf1,
                                               !.csv = salvo, !.pc = "prompt"]
                 ELSE coleta' = [coleta EXCEPT !.ultima = u, !.buffer = buf1,
                                               !.pc = "prompt"]
       ELSE IF tecla = 27
       THEN coleta' = [coleta EXCEPT !.ultima = u, !.buffer = buf1, !.pc = "prompt"]
       ELSE IF BufferCheio(coleta.gravando, buf1)
       THEN coleta' = [coleta EXCEPT !.ultima = u, !.buffer = buf1,
                                     !.csv = salvo, !.pc = "prompt"]
       ELSE coleta' = [coleta EXCEPT !.ultima = u, !.buffer = buf1]
    /\ UNCHANGED <<pvars, tvars, cenario, laco, entrada, saida, legado, gui>>

\* Lines 317-318: Ctrl-C ends the run, at the prompt, at the top of an
\* iteration of the inner loop, or inside one (lido): in cv2.waitKey, line 284,
\* after the frame was read and appended (line 272) and before the keys and the
\* test of line 308, so that nothing is saved.
ColetaInterrompe(lido, maos, s) ==
    /\ coleta.pc \in {"prompt", "captura"}
    /\ lido => coleta.pc = "captura"
    /\ coleta' = IF lido
                 THEN [coleta EXCEPT !.pc = "fim",
                                     !.buffer = IF maos /\ coleta.gravando
                                                THEN Append(@, s) ELSE @,
                                     !.ultima = [ret |-> TRUE, maos |-> maos,
                                                 tecla |-> 255]]
                 ELSE [coleta EXCEPT !.pc = "fim"]
    /\ UNCHANGED <<pvars, tvars, cenario, laco, entrada, saida, legado, gui>>

NextColeta ==
    \/ \E d \in Digitados : ColetaPrompt(d)
    \/ \E ret \in BOOLEAN, maos \in BOOLEAN, s \in Samples, t \in Teclas :
           ColetaFrame(ret, maos, s, t)
    \/ \E lido \in BOOLEAN, maos \in BOOLEAN, s \in Samples :
           /\ (~lido \/ ~maos) => s = 1
           /\ ~lido => ~maos
           /\ ColetaInterrompe(lido, maos, s)

SpecColeta == InitColeta /\ [][NextColeta]_vars

\* ----------------------- libras_alfabeto_projeto/app/reconhecer (legacy loop)
\* The module-level state of lines 28-31, before the first iteration. pred is the
\* classifier's last output: the classifier is a function of the buffer, so an
\* inference on an unchanged buffer returns it again.
InitLegado ==
    /\ InitRepouso
    /\ ColetaParada
    /\ GuiParada
    /\ legado = [pc |-> "rodando", buffer |-> <<>>, frames_sem_maos |-> 0,
                 historico_predicoes |-> <<>>, ultimo_gesto |-> None,
                 pred |-> [gesto |-> None, confianca |-> 0],
                 ultima |-> [ret |-> FALSE, maos |-> FALSE, inferiu |-> FALSE,
                             reconheceu |-> FALSE]]

\* Variant: the recognition block runs only on frames with hands.
LegadoInfereComMaos(maos, buf) == maos /\ Len(buf) = SEQUENCE_LENGTH

\* Line 81: the recognition block is outside the if / else on the detection.
LegadoInfere(maos, buf) == Len(buf) = SEQUENCE_LENGTH

\* Lines 53-112: one iteration of the loop. Inputs: the frame read (ret), the
\* detection (maos, s), the classifier's output for a changed buffer (g, c), ESC.
LegadoFrame(ret, maos, s, g, c, esc) ==
    /\ legado.pc = "rodando"
    /\ maos \/ legado.frames_sem_maos < MaxAusentes
    /\ LET n1 == IF maos THEN 0 ELSE legado.frames_sem_maos + 1
           buf1 == IF maos THEN DequeAppend(legado.buffer, s, SEQUENCE_LENGTH)
                   ELSE IF DeveResetar(n1, legado.buffer) THEN <<>>
                   ELSE legado.buffer
           inferiu == LegadoInfere(maos, buf1)
           pred1 == IF ~inferiu THEN legado.pred
                    ELSE IF maos THEN [gesto |-> g, confianca |-> c]
                    ELSE legado.pred
           aceita == inferiu /\ ~Rejeitada(pred1.confianca, MIN_CONFIDENCE)
           hist1 == IF aceita
                    THEN DequeAppend(legado.historico_predicoes, pred1.gesto, HISTORY_SIZE)
                    ELSE legado.historico_predicoes
           gesto_final == IF aceita THEN MaisVotado(hist1) ELSE None
           novo == aceita /\ gesto_final # legado.ultimo_gesto
       IN
       IF ~ret
       THEN legado' = [legado EXCEPT !.ultima = [ret |-> FALSE, maos |-> FALSE,
                                                inferiu |-> FALSE, reconheceu |-> FALSE]]
       ELSE legado' = [legado EXCEPT
                          !.frames_sem_maos = n1,
                          !.buffer = IF novo THEN <<>> ELSE buf1,
                          !.pred = pred1,
                          !.historico_predicoes = hist1,
                          !.ultimo_gesto = IF novo THEN gesto_final ELSE @,
                          !.ultima = [ret |-> TRUE, maos |-> maos, inferiu |-> inferiu,
                                      reconheceu |-> novo],
                          !.pc = IF esc THEN "fim" ELSE @]
    /\ UNCHANGED <<pvars, tvars, cenario, laco, entrada, saida, coleta, gui>>

\* The inputs an iteration does not read are fixed: nothing after a failed read,
\* no landmarks and no fresh classifier output without hands.
NextLegado ==
    \/ LegadoFrame(FALSE, FALSE, 1, "A", 0, FALSE)
    \/ \E esc \in BOOLEAN : LegadoFrame(TRUE, FALSE, 1, "A", 0, esc)
    \/ \E s \in Samples, g \in LabelsAB, c \in Confidences, esc \in BOOLEAN :
           LegadoFrame(TRUE, TRUE, s, g, c, esc)

SpecLegado == InitLegado /\ [][NextLegado]_vars

\* ------------------------------------ libras_alfabeto_projeto/GUI (Tk application)
\* self.secoes, scaled: the sections in dict order, each a list of levels, each
\* level a list of targets. A label is a sequence of tokens: the gesture name and
\* the hand suffixes, so that str.replace can be computed on it.
SECOES == <<"Alfabeto", "Numeros", "Dias">>

Secoes(secao) ==
    CASE secao = "Alfabeto" -> << << <<"A">>, <<"B">> >>, << <<"B">> >> >>
      [] secao = "Numeros" -> << << <<"A">> >> >>
      [] secao = "Dias" -> << << <<"B">> >> >>

\* Position of a section in list(self.secoes.keys()).
IndiceSecao(secao) == CHOOSE i \in 1..Len(SECOES) : SECOES[i] = secao

\* self.le_gestos.classes_: what the classifier can answer.
GuiClasses == {<<"A">>, <<"A", "_DIR">>, <<"B", "_ESQ">>}

\* None for a label of the GUI (an empty label is falsy like None).
SemGesto == <<>>

\* Variant: only the right-hand suffix is removed.
NormalizaSoDir(g) == SelectSeq(g, LAMBDA t : t # "_DIR")

\* Variant: nothing is removed.
NormalizaNada(g) == g

\* g.replace("_DIR", "").replace("_ESQ", "")
Normaliza(g) == SelectSeq(SelectSeq(g, LAMBDA t : t # "_DIR"), LAMBDA t : t # "_ESQ")

\* Time is counted in units of 10 ms.
\* root.after(30, self.atualizar_frame), line 882.
ATRASO_FRAME == 3

\* root.after(1500, self.proxima_letra), line 952: 1500 ms for a buffer of 30
\* frames, 50 ms for each frame of the buffer.
ATRASO_PROXIMA == 5 * SEQUENCE_LENGTH

\* root.after(100, ...) of iniciar_nivel, line 480.
ATRASO_CARGA_INICIO == 10

\* root.after(50, ...) of carregar_nivel_background, line 499.
ATRASO_CARGA_PASSO == 5

\* time.sleep(0.5) in reiniciar_camera, line 887: a third of the 1500 ms.
PAUSA_REINICIO == ATRASO_PROXIMA \div 3

\* self.camera_timeout, 5 s (lines 157, 832-833): ten times the pause of
\* reiniciar_camera, slept in steps of 0.1 s while the camera does not open.
CAMERA_TIMEOUT == 10 * PAUSA_REINICIO

\* self.skip_frames (lines 143, 849).
SKIP_FRAMES == 1

\* root.after(ms, cb): the callback joins the pending ones, in the order of
\* their creation. em is the time left before it is due, atraso the time it has
\* been overdue; secao, nivel and progresso are the arguments bound by the
\* lambda of the loading callbacks.
Agenda(g, cb, em, secao, nivel, progresso) ==
    [g EXCEPT !.timers = Append(@, [cb |-> cb, em |-> em, atraso |-> 0, secao |-> secao,
                                    nivel |-> nivel, progresso |-> progresso])]

\* The main thread is blocked for d units (time.sleep): the pending callbacks
\* get closer, those reached become overdue.
Pausa(g, d) ==
    [g EXCEPT !.timers = [i \in 1..Len(g.timers) |->
                             LET t == g.timers[i] IN
                             [t EXCEPT !.em = IF t.em > d THEN t.em - d ELSE 0,
                                       !.atraso = IF t.em > d THEN t.atraso
                                                  ELSE t.atraso + (d - t.em)]]]

\* parar_camera (lines 997-1002).
PararCamera(g) == [g EXCEPT !.running = FALSE]

\* limpar_tela (lines 1014-1018).
LimparTela(g) == PararCamera(g)

\* Variant: a pass needs the confidence to reach the limit only.
GuiPassaNoLimite(c) == c >= MIN_CONFIDENCE

\* Line 945: confianca > 0.7.
GuiPassa(c) == c > MIN_CONFIDENCE

\* Variant: a prediction that does not pass the limit is not added to the history.
GuiVotoComFiltro(hist, gn, c) ==
    IF GuiPassa(c) THEN DequeAppend(hist, gn, HISTORY_SIZE) ELSE hist

\* Line 938: the normalized label is appended whatever its confidence.
GuiVoto(hist, gn, c) == DequeAppend(hist, gn, HISTORY_SIZE)

\* Line 946: 10 * self.nivel_atual.
Pontos_(nivel) == 10 * nivel

\* reconhecer_gesto (lines 921-968) with the classifier's answer x. Without a
\* model or a target it calls reconhecer_gesto_simulado, which does not exist:
\* AttributeError, raised outside the try (exc). An exception of predict is
\* caught at line 963. ultimo_gesto_reconhecido is left out: it only selects
\* the text of the feedback label.
\* Pending atualizar_frame callbacks.
Lacos(g) == Cardinality({i \in 1..Len(g.timers) : g.timers[i].cb = "atualizar_frame"})

ReconhecerGesto(g, x) ==
    IF ~g.modelo \/ g.gesto_alvo = SemGesto
    THEN [g EXCEPT !.exc = TRUE]
    ELSE IF x.erro
    THEN [g EXCEPT !.inferiu = TRUE]
    ELSE LET gesto_normalizado == Normaliza(x.gesto)
             alvo_normalizado == Normaliza(g.gesto_alvo)
             hist == GuiVoto(g.historico_predicoes, gesto_normalizado, x.confianca)
             gesto_final == IF hist = <<>> THEN SemGesto ELSE MaisVotado(hist)
         IN
         IF GuiPassa(x.confianca) /\ gesto_final = alvo_normalizado
         THEN Agenda([g EXCEPT !.pontuacao = @ + Pontos_(g.nivel_atual),
                               !.buffer_gestos = <<>>,
                               !.historico_predicoes = <<>>,
                               !.inferiu = TRUE,
                               !.sucesso = TRUE],
                     "proxima_letra", ATRASO_PROXIMA, None, 0, 0)
         ELSE [g EXCEPT !.historico_predicoes = hist,
                        !.inferiu = TRUE]

\* processar_frame (lines 890-919) on the detection and classifier answer x.
GuiProcessarFrame(g, x) ==
    IF x.maos
    THEN LET g1 == [g EXCEPT !.frames_sem_maos = 0,
                             !.buffer_gestos = DequeAppend(@, x.amostra, SEQUENCE_LENGTH),
                             !.processou = TRUE, !.entrada = x]
         IN IF Len(g1.buffer_gestos) = SEQUENCE_LENGTH THEN ReconhecerGesto(g1, x) ELSE g1
    ELSE LET n == g.frames_sem_maos + 1 IN
         [g EXCEPT !.frames_sem_maos = n,
                   !.buffer_gestos = IF DeveResetar(n, @) THEN <<>> ELSE @,
                   !.processou = TRUE, !.entrada = x]

\* The next result of cap.read() / cap.isOpened() in the running handler: the
\* listed results first, success after them.
Proximo(rs) == IF rs = <<>> THEN TRUE ELSE Head(rs)
Resto(rs) == IF rs = <<>> THEN <<>> ELSE Tail(rs)

\* The pending callback Tk runs next: of those that are due, the one due first
\* (Tcl keeps its timers in the order of their firing time), the older one
\* when two were due at the same time.
Devido(g) == {i \in 1..Len(g.timers) :
                /\ g.timers[i].em = 0
                /\ \A j \in 1..Len(g.timers) :
                      g.timers[j].em = 0 =>
                         \/ g.timers[j].atraso < g.timers[i].atraso
                         \/ (g.timers[j].atraso = g.timers[i].atraso /\ j >= i)}

\* The callback leaves the pending ones when Tk runs it.
SemTimer(g, i) ==
    [g EXCEPT !.timers = SubSeq(@, 1, i - 1) \o SubSeq(@, i + 1, Len(@))]

RECURSIVE AtualizarFrame(_, _, _, _)
RECURSIVE IniciarCamera(_, _, _, _)
RECURSIVE ProximaLetra(_)
RECURSIVE CarregarNivelBackground(_, _, _, _, _, _, _)
RECURSIVE MessageboxShowerror(_, _)

\* reiniciar_camera (lines 884-888).
ReiniciarCamera(g, rets, abres, x) ==
    IniciarCamera(Pausa(PararCamera(g), PAUSA_REINICIO), rets, abres, x)

\* Lines 880-882: finally, if self.running, root.after(30, self.atualizar_frame).
Finally(g) ==
    IF g.running THEN Agenda(g, "atualizar_frame", ATRASO_FRAME, None, 0, 0) ELSE g

\* atualizar_frame (lines 859-882). frame_count is kept modulo skip_frames + 1,
\* the only way the code reads it.
AtualizarFrame(g, rets, abres, x) ==
    IF ~g.running THEN g
    ELSE LET g1 == [g EXCEPT !.frame_count = (@ + 1) % (SKIP_FRAMES + 1)]
             g2 == IF ~Proximo(rets)
                   THEN ReiniciarCamera(g1, Resto(rets), abres, x)
                   ELSE IF g1.frame_count % (SKIP_FRAMES + 1) = 0
                   THEN LET g3 == GuiProcessarFrame(g1, x) IN
                        IF g3.exc
                        THEN ReiniciarCamera([g3 EXCEPT !.exc = FALSE], Resto(rets), abres, x)
                        ELSE g3
                   ELSE g1
         IN Finally(g2)

\* messagebox.showerror (line 836): the box runs the event loop inside the
\* handler that opened it. Every callback that is due runs there, in Tk's
\* order, before showerror returns; the user then closes the box, the only
\* window that takes clicks meanwhile.
MessageboxShowerror(g, x) ==
    IF Devido(g) = {} THEN g
    ELSE LET i == CHOOSE i \in Devido(g) : TRUE
             t == g.timers[i]
             g1 == SemTimer(g, i)
         IN MessageboxShowerror(
                CASE t.cb = "proxima_letra" -> ProximaLetra(g1)
                  [] t.cb = "atualizar_frame" -> AtualizarFrame(g1, <<>>, <<>>, x)
                  [] t.cb = "carregar_nivel_background" ->
                        CarregarNivelBackground(g1, t.secao, t.nivel, t.progresso,
                                                <<>>, <<>>, x),
                x)

\* iniciar_camera (lines 822-857). A camera that does not open blocks the main
\* thread for camera_timeout in the loop of lines 832-833, then the error box
\* is shown.
IniciarCamera(g, rets, abres, x) ==
    IF g.running THEN g
    ELSE IF ~Proximo(abres) THEN MessageboxShowerror(Pausa(g, CAMERA_TIMEOUT), x)
    ELSE AtualizarFrame([g EXCEPT !.running = TRUE, !.frame_count = 0],
                        rets, Resto(abres), x)

\* toggle_camera (lines 812-819).
ToggleCamera(g, rets, abres, x) ==
    IF g.running THEN PararCamera(g) ELSE IniciarCamera(g, rets, abres, x)

\* mostrar_tela_parabens (lines 409-469).
MostrarTelaParabens(g) == [LimparTela(g) EXCEPT !.tela = "parabens"]

\* Variant: a level is recorded as complete each time its end is reached.
CompletaRepetido(lista, nivel) == Append(lista, nivel)

\* Lines 763-764.
Completa(lista, nivel) ==
    IF \E i \in 1..Len(lista) : lista[i] = nivel THEN lista ELSE Append(lista, nivel)

\* list.append(x) unless x is in the list (lines 769-770 and 777-778).
Libera(lista, secao) ==
    IF \E i \in 1..Len(lista) : lista[i] = secao THEN lista ELSE Append(lista, secao)

\* Variant: the next section is released by any completed level.
UltimoNivelQualquer(g) == TRUE

\* Line 767: the level is the last one of its section.
UltimoNivel(g) == g.nivel_atual = Len(Secoes(g.secao_atual))

\* proxima_letra (lines 749-780). Outside the level screen the label of line 753
\* is destroyed: the call ends there with a TclError, the target already set.
\* completou records that the call went past the last target (line 760).
ProximaLetra(g) ==
    IF g.letra_atual_idx < Len(g.letras_nivel)
    THEN LET g1 == [g EXCEPT !.gesto_alvo = g.letras_nivel[g.letra_atual_idx + 1]] IN
         IF g.tela # "nivel" THEN g1
         ELSE [g1 EXCEPT !.letra_atual_idx = @ + 1]
    ELSE LET g1 == [g EXCEPT !.niveis_completos[g.secao_atual] = Completa(@, g.nivel_atual),
                             !.completou = TRUE]
             i == IndiceSecao(g.secao_atual)
             g2 == IF UltimoNivel(g1)
                   THEN [g1 EXCEPT !.secoes_liberadas =
                            LET l1 == Libera(@, g.secao_atual) IN
                            IF i < Len(SECOES) THEN Libera(l1, SECOES[i + 1]) ELSE l1]
                   ELSE g1
         IN MostrarTelaParabens(g2)

\* iniciar_nivel (lines 476-480): the loading screen replaces the current one
\* and the first loading callback is armed.
IniciarNivel(g, secao, nivel) ==
    Agenda([LimparTela(g) EXCEPT !.tela = "carregando", !.inicios = @ + 1],
           "carregar_nivel_background", ATRASO_CARGA_INICIO, secao, nivel, 0)

\* iniciar_nivel_real (lines 563-599). atualizar_tempo (line 598) only writes
\* the clock label and is left out.
IniciarNivelReal(g, secao, nivel, rets, abres, x) ==
    LET g1 == [g EXCEPT !.secao_atual = secao, !.nivel_atual = nivel,
                        !.letras_nivel = Secoes(secao)[nivel],
                        !.letra_atual_idx = 0, !.tela = "nivel"]
    IN ProximaLetra(IniciarCamera(g1, rets, abres, x))

\* Line 498: incremento = 1 if progresso > 90 else 2 if progresso > 50 else 5.
Incremento(progresso) == IF progresso > 90 THEN 1 ELSE IF progresso > 50 THEN 2 ELSE 5

\* carregar_nivel_background (lines 482-503). The widgets it writes are those of
\* the loading screen shown last (self.loading_stage, line 516): once that
\* screen is gone the first config raises TclError and nothing is armed again.
\* pre_iniciar_camera (progresso = 10) opens and releases the camera and
\* changes nothing of the state kept here.
CarregarNivelBackground(g, secao, nivel, progresso, rets, abres, x) ==
    IF g.tela # "carregando" THEN g
    ELSE IF progresso <= 100
    THEN Agenda(g, "carregar_nivel_background", ATRASO_CARGA_PASSO, secao, nivel,
                progresso + Incremento(progresso))
    ELSE IniciarNivelReal(g, secao, nivel, rets, abres, x)

\* What the camera answers to one handler. The handler asks cap.read() and
\* cap.isOpened() in turn for as long as reads fail or the frame read raises,
\* and openings succeed (atualizar_frame -> reiniciar_camera -> iniciar_camera
\* -> atualizar_frame): some reads in a row fail, after a first read that
\* works if its frame raises, and one of the openings that follow may fail.
\* Only the first read of a handler can work and be followed by another read:
\* iniciar_camera sets frame_count to 0 (line 848), so the frame read after an
\* opening is not processed.
Falhas(k) == [i \in 1..k |-> FALSE]
Leituras ==
    {Falhas(k) : k \in 0..MaxFalhas} \cup {<<TRUE>> \o Falhas(k) : k \in 1..MaxFalhas}
Aberturas == {<<>>} \cup {[i \in 1..k |-> i < k] : k \in 1..(MaxFalhas + 1)}

\* What the detector and the classifier answer to one handler.
SemEntrada == [maos |-> FALSE]
ComMaos == [maos |-> TRUE, amostra |-> 1]
Predicoes ==
    [maos : {TRUE}, amostra : {1}, erro : {FALSE}, gesto : GuiClasses,
     confianca : Confidences]
    \cup {[maos |-> TRUE, amostra |-> 1, erro |-> TRUE, gesto |-> SemGesto,
           confianca |-> 0]}
GuiEntradas == {SemEntrada, ComMaos} \cup Predicoes

\* The handler processes the frame it reads first: the camera runs, the read
\* succeeds and frame_count reaches a multiple of skip_frames + 1 (line 873).
Processa(g, rets) ==
    g.running /\ Proximo(rets) /\ (g.frame_count + 1) % (SKIP_FRAMES + 1) = 0

\* The processed frame raises: with hands it fills the buffer and
\* reconhecer_gesto calls the method that does not exist (line 924).
Levanta(g, rets, x) ==
    /\ Processa(g, rets)
    /\ x.maos
    /\ Len(g.buffer_gestos) + 1 >= SEQUENCE_LENGTH
    /\ (~g.modelo \/ g.gesto_alvo = SemGesto)

\* An answer is listed only if the handler asks for it: a list holds the
\* answers up to the last failure, what follows succeeds. atualizar_frame asks
\* the detector about a processed frame only and the classifier only when the
\* frame fills the buffer and reconhecer_gesto has a model and a target (line
\* 923); it opens the camera once after each failed read and after a frame
\* that raised, and reads again after each opening that succeeds.
Lido(g, rets, abres, x) ==
    LET processa == Processa(g, rets)
        enche == Len(g.buffer_gestos) + 1 >= SEQUENCE_LENGTH
        prediz == g.modelo /\ g.gesto_alvo # SemGesto
    IN
    /\ ~processa => x = SemEntrada
    /\ processa /\ ~(enche /\ prediz) => x \in {SemEntrada, ComMaos}
    /\ processa /\ enche /\ prediz => x \in {SemEntrada} \cup Predicoes
    /\ ~g.running => rets = <<>> /\ abres = <<>>
    /\ (rets # <<>> /\ Head(rets)) => Levanta(g, rets, x)
    /\ abres # <<>> =>
          \/ Len(rets) = Len(abres)
          \/ (Levanta(g, rets, x) /\ rets = <<>> /\ Len(abres) = 1)

\* The handler counts as an incident: the camera fails in it or the frame raises.
Custo(g, rets, abres, x) ==
    IF rets # <<>> \/ abres # <<>> \/ Levanta(g, rets, x) THEN 1 ELSE 0

\* The same for a handler that opens the camera first (iniciar_camera called
\* by iniciar_nivel_real or toggle_camera while the camera is off): the opening
\* that fails comes after the reads that failed.
LidoAoAbrir(g, abre, rets, abres) ==
    IF abre /\ ~g.running
    THEN /\ rets # <<>> => ~Head(rets)
         /\ abres = <<>> \/ Len(rets) = Len(abres) - 1
    ELSE rets = <<>> /\ abres = <<>>

\* The application once the section screen is shown (lines 15-109, 138-158, 203).
InitGui ==
    /\ InitRepouso
    /\ ColetaParada
    /\ LegadoParado
    /\ \E m \in BOOLEAN :
         gui = [pc |-> "rodando", tela |-> "secoes", modelo |-> m,
                running |-> FALSE, frame_count |-> 0,
                nivel_atual |-> 1, pontuacao |-> 0, gesto_alvo |-> SemGesto,
                buffer_gestos |-> <<>>, historico_predicoes |-> <<>>,
                frames_sem_maos |-> 0,
                niveis_completos |-> [s \in {SECOES[i] : i \in 1..Len(SECOES)} |-> <<>>],
                secoes_liberadas |-> <<"Alfabeto">>,
                secao_atual |-> None, letras_nivel |-> <<>>, letra_atual_idx |-> 0,
                timers |-> <<>>,
                \* what the last handler did, the levels started and the
                \* incidents so far
                op |-> "init", entrada |-> [maos |-> FALSE], processou |-> FALSE,
                inferiu |-> FALSE, sucesso |-> FALSE, exc |-> FALSE,
                completou |-> FALSE, inicios |-> 0, incidentes |-> 0]

\* A handler starts: the record of the previous one is dropped.
Comeca(g, op) ==
    [g EXCEPT !.op = op, !.entrada = SemEntrada, !.processou = FALSE,
              !.inferiu = FALSE, !.sucesso = FALSE, !.exc = FALSE,
              !.completou = FALSE]

outros == <<pvars, tvars, cenario, laco, entrada, saida, coleta, legado>>

\* The time until the next callback is due.
Falta(g) ==
    LET i == CHOOSE i \in 1..Len(g.timers) :
                 \A j \in 1..Len(g.timers) : g.timers[i].em <= g.timers[j].em
    IN g.timers[i].em

\* Time passes without any callback being due: 10 ms, after which the user may
\* click again. The loading screen has no button, and closing the window
\* (GuiSair) leads to the same state whenever it comes: there the time up to
\* the next callback passes in one step, the callbacks keeping their order.
GuiTick ==
    /\ gui.pc = "rodando"
    /\ gui.timers # <<>>
    /\ \A i \in 1..Len(gui.timers) : gui.timers[i].em > 0
    /\ LET d == IF gui.tela = "carregando" THEN Falta(gui) ELSE 1 IN
       gui' = [Comeca(gui, "espera") EXCEPT
                  !.timers = [i \in 1..Len(@) |-> [@[i] EXCEPT !.em = @ - d]]]
    /\ UNCHANGED outros

\* Tk runs a due atualizar_frame callback, the camera, the detector and the
\* classifier answering anything. Frames without hands are followed up to
\* MaxAusentes of them in a row, frame loops up to MaxLacos at a time,
\* incidents up to MaxIncidentes in a run.
GuiAtualizarFrame ==
    /\ gui.pc = "rodando"
    /\ \E i \in Devido(gui) :
         /\ gui.timers[i].cb = "atualizar_frame"
         /\ \E rets \in Leituras, abres \in Aberturas, x \in GuiEntradas :
              /\ Lido(gui, rets, abres, x)
              /\ (Processa(gui, rets) /\ ~x.maos) => gui.frames_sem_maos < MaxAusentes
              /\ gui.incidentes + Custo(gui, rets, abres, x) <= MaxIncidentes
              /\ gui' = AtualizarFrame(
                           [Comeca(SemTimer(gui, i), "atualizar_frame")
                               EXCEPT !.incidentes = @ + Custo(gui, rets, abres, x)],
                           rets, abres, x)
              /\ Lacos(gui') <= MaxLacos
    /\ UNCHANGED outros

\* Tk runs a due proxima_letra callback.
GuiProximaLetra ==
    /\ gui.pc = "rodando"
    /\ \E i \in Devido(gui) :
         /\ gui.timers[i].cb = "proxima_letra"
         /\ gui' = ProximaLetra(Comeca(SemTimer(gui, i), "proxima_letra"))
    /\ UNCHANGED outros

\* Tk runs a due loading callback. The camera is asked only by the last one,
\* which starts the level.
GuiCarregarNivelBackground ==
    /\ gui.pc = "rodando"
    /\ \E i \in Devido(gui) :
         LET t == gui.timers[i] IN
         /\ t.cb = "carregar_nivel_background"
         /\ \E rets \in Leituras, abres \in Aberturas :
              /\ LidoAoAbrir(gui, gui.tela = "carregando" /\ t.progresso > 100,
                             rets, abres)
              /\ gui.incidentes + Custo(gui, rets, abres, SemEntrada) <= MaxIncidentes
              /\ gui' = CarregarNivelBackground(
                           [Comeca(SemTimer(gui, i), "carregar_nivel_background")
                               EXCEPT !.incidentes = @ + Custo(gui, rets, abres, SemEntrada)],
                           t.secao, t.nivel, t.progresso, rets, abres, SemEntrada)
              /\ Lacos(gui') <= MaxLacos
    /\ UNCHANGED outros

\* A level button of the section screen (lines 388-398): enabled for level 1 of a
\* released section and for completed levels. MaxInicios levels are started in
\* a run.
GuiClicaNivel(secao, nivel) ==
    /\ gui.pc = "rodando"
    /\ gui.tela = "secoes"
    /\ gui.inicios < MaxInicios
    /\ nivel \in 1..Len(Secoes(secao))
    /\ LET secao_liberada == \E i \in 1..Len(gui.secoes_liberadas) :
                                 gui.secoes_liberadas[i] = secao
           nivel_completo == \E i \in 1..Len(gui.niveis_completos[secao]) :
                                 gui.niveis_completos[secao][i] = nivel
       IN (nivel = 1 /\ secao_liberada) \/ nivel_completo
    /\ gui' = IniciarNivel(Comeca(gui, "iniciar_nivel"), secao, nivel)
    /\ UNCHANGED outros

\* "Próximo Nível" on the congratulation screen (lines 461-465, 471-474).
GuiProximoNivel ==
    /\ gui.pc = "rodando"
    /\ gui.tela = "parabens"
    /\ gui.inicios < MaxInicios
    /\ gui.nivel_atual < Len(Secoes(gui.secao_atual))
    /\ gui' = IniciarNivel(Comeca(gui, "iniciar_nivel"),
                           gui.secao_atual, gui.nivel_atual + 1)
    /\ UNCHANGED outros

\* "Próxima Seção" on the congratulation screen (lines 449-458).
GuiProximaSecao ==
    /\ gui.pc = "rodando"
    /\ gui.tela = "parabens"
    /\ gui.inicios < MaxInicios
    /\ gui.nivel_atual = Len(Secoes(gui.secao_atual))
    /\ IndiceSecao(gui.secao_atual) < Len(SECOES)
    /\ gui' = IniciarNivel(Comeca(gui, "iniciar_nivel"),
                           SECOES[IndiceSecao(gui.secao_atual) + 1], 1)
    /\ UNCHANGED outros

\* "Voltar" on the level screen, or back to the sections from the congratulation
\* screen: mostrar_tela_secoes (lines 205-207).
GuiVoltar ==
    /\ gui.pc = "rodando"
    /\ gui.tela \in {"nivel", "parabens"}
    /\ gui.tela = "nivel" => gui.incidentes < MaxIncidentes
    /\ gui' = [LimparTela(Comeca(gui, "mostrar_tela_secoes"))
                  EXCEPT !.tela = "secoes",
                         !.incidentes = IF gui.tela = "nivel" THEN @ + 1 ELSE @]
    /\ UNCHANGED outros

\* The camera button of the level screen.
GuiToggleCamera ==
    /\ gui.pc = "rodando"
    /\ gui.tela = "nivel"
    /\ gui.incidentes < MaxIncidentes
    /\ \E rets \in Leituras, abres \in Aberturas :
         /\ LidoAoAbrir(gui, TRUE, rets, abres)
         /\ gui' = ToggleCamera([Comeca(gui, "toggle_camera")
                                    EXCEPT !.incidentes = @ + 1],
                                rets, abres, SemEntrada)
         /\ Lacos(gui') <= MaxLacos
    /\ UNCHANGED outros

\* sair (lines 1020-1023), the "Sair" button of the section screen and the
\* close button of the window (line 1028): the camera stops, the window is
\* destroyed with its pending callbacks and mainloop returns.
GuiSair ==
    /\ gui.pc = "rodando"
    /\ gui' = [PararCamera(Comeca(gui, "sair"))
                  EXCEPT !.pc = "fim", !.timers = <<>>, !.tela = "fechada"]
    /\ UNCHANGED outros

\* The application in use: the user clicks whatever the screen offers at any
\* time, the camera, the detector and the classifier answer anything.
NextGui ==
    \/ GuiTick
    \/ GuiAtualizarFrame
    \/ GuiProximaLetra
    \/ GuiCarregarNivelBackground
    \/ \E i \in 1..Len(SECOES), nivel \in 1..2 : GuiClicaNivel(SECOES[i], nivel)
    \/ GuiProximoNivel
    \/ GuiProximaSecao
    \/ GuiVoltar
    \/ GuiToggleCamera
    \/ GuiSair

SpecGui == InitGui /\ [][NextGui]_vars

\* ------------------------------------------------------------------ claims

\* The call that led to the primed state was processar_frame, with / without hands.
FoiFrame == chamada'.op = "processar_frame"
FoiPresente == FoiFrame /\ chamada'.maos
FoiAusente == FoiFrame /\ ~chamada'.maos

\* ... and its prediction passed the confidence gate.
FoiAceita == FoiFrame /\ Aceita(chamada', min_confidence)

\* The smoothed label of that call: the vote over the history with its label added.
Suavizado == MaisVotado(DequeAppend(prediction_history, chamada'.gesto, HISTORY_SIZE))

\* C1 (as stated): when the smoothed label of an accepted prediction differs
\* from ultimo_gesto (or ultimo_gesto is unset), the frame reports a recognition
\* with (smoothed label, confidence of the prediction), sets ultimo_gesto, and
\* leaves both the buffer and the prediction history empty.
AfirmacaoC1 ==
    [][FoiAceita /\ Suavizado # ultimo_gesto =>
         /\ novo_reconhecimento'
         /\ ultimo_gesto' = Suavizado
         /\ ultima_confianca' = chamada'.confianca
         /\ buffer' = <<>>
         /\ prediction_history' = <<>>]_vars

\* C1 (amended): as above, but only the buffer is emptied; the prediction
\* history keeps its votes, the one of the triggering prediction included.
TeoremaC1 ==
    [][FoiAceita /\ Suavizado # ultimo_gesto =>
         /\ novo_reconhecimento'
         /\ ultimo_gesto' = Suavizado
         /\ ultima_confianca' = chamada'.confianca
         /\ buffer' = <<>>
         /\ prediction_history' =
                DequeAppend(prediction_history, chamada'.gesto, HISTORY_SIZE)]_vars

\* A recognition of a label that differs from the one before, with older votes
\* still in the history.
TestemunhaC1 ==
    /\ chamada.op = "processar_frame"
    /\ novo_reconhecimento
    /\ chamada.votos >= 1
    /\ buffer = <<>>
    /\ Len(prediction_history) >= 2
    /\ ultimo_gesto = chamada.gesto

\* C4: a prediction below min_confidence is not added to the history and its
\* frame reports nothing; a prediction at or above min_confidence is added.
TeoremaC4 ==
    [][FoiFrame /\ chamada'.inferiu =>
         IF chamada'.confianca < min_confidence
         THEN prediction_history' = prediction_history /\ ~novo_reconhecimento'
         ELSE /\ Len(prediction_history') >= 1
              /\ prediction_history'[Len(prediction_history')] = chamada'.gesto
              /\ Len(prediction_history') = Min(Len(prediction_history) + 1, HISTORY_SIZE)]_vars

\* A prediction whose confidence equals min_confidence went into the history
\* of another label.
TestemunhaC4 ==
    /\ chamada.op = "processar_frame"
    /\ chamada.inferiu
    /\ chamada.confianca = min_confidence
    /\ Len(prediction_history) >= 2
    /\ prediction_history[Len(prediction_history)] = chamada.gesto
    /\ prediction_history[1] # chamada.gesto

\* C5: in a run of hand-absent frames that starts with a non-empty buffer, the
\* buffer and the history are untouched while the count is at most
\* RESET_THRESHOLD and both are empty once it is RESET_THRESHOLD + 1; a frame
\* with hands after that leaves exactly its own sample in the buffer.
TeoremaC5 ==
    [][/\ FoiAusente /\ frames_sem_maos' <= RESET_THRESHOLD =>
             buffer' = buffer /\ prediction_history' = prediction_history
       /\ FoiAusente /\ frames_sem_maos' = RESET_THRESHOLD + 1 /\ buffer # <<>> =>
             buffer' = <<>> /\ prediction_history' = <<>>
       /\ buffer' # <<>> => frames_sem_maos' <= RESET_THRESHOLD
       /\ FoiPresente /\ frames_sem_maos > RESET_THRESHOLD /\ SEQUENCE_LENGTH > 1 =>
             buffer' = <<chamada'.amostra>>]_vars

\* The absent frame number RESET_THRESHOLD + 1 has just emptied a buffer and a
\* history that held something.
TestemunhaC5 ==
    /\ chamada.op = "processar_frame"
    /\ ~chamada.maos
    /\ frames_sem_maos = RESET_THRESHOLD + 1
    /\ chamada.tam > 0
    /\ chamada.votos > 0
    /\ buffer = <<>>
    /\ prediction_history = <<>>

\* C8: the buffer never holds more than SEQUENCE_LENGTH samples.
TeoremaC8 == Len(buffer) <= SEQUENCE_LENGTH

\* A sample was pushed into a full buffer.
TestemunhaC8 ==
    /\ chamada.op = "processar_frame"
    /\ chamada.maos
    /\ chamada.tam = SEQUENCE_LENGTH
    /\ Len(buffer) = SEQUENCE_LENGTH

\* C9: a push into a buffer that is not full adds the sample at the end; a push
\* into a full buffer removes the oldest sample, keeps the order of the others
\* and adds the new one at the end (frames that report a recognition empty the
\* buffer afterwards and are not pushes that can be read back).
TeoremaC9 ==
    [][FoiPresente /\ ~novo_reconhecimento' =>
         IF Len(buffer) < SEQUENCE_LENGTH
         THEN buffer' = buffer \o <<chamada'.amostra>>
         ELSE /\ Len(buffer') = SEQUENCE_LENGTH
              /\ \A i \in 1..(SEQUENCE_LENGTH - 1) : buffer'[i] = buffer[i + 1]
              /\ buffer'[SEQUENCE_LENGTH] = chamada'.amostra]_vars

\* A push into a full buffer whose oldest and newest samples differ.
TestemunhaC9 ==
    /\ chamada.op = "processar_frame"
    /\ chamada.maos
    /\ chamada.tam = SEQUENCE_LENGTH
    /\ ~novo_reconhecimento
    /\ Len(buffer) = SEQUENCE_LENGTH
    /\ buffer[SEQUENCE_LENGTH] = chamada.amostra
    /\ buffer[1] # buffer[SEQUENCE_LENGTH]
    /\ buffer[SEQUENCE_LENGTH - 1] # buffer[SEQUENCE_LENGTH]

\* C10: the prediction history never holds more than HISTORY_SIZE labels, and
\* adding a label to a full history removes exactly its oldest label.
TeoremaC10 ==
    /\ [](Len(prediction_history) <= HISTORY_SIZE)
    /\ [][FoiAceita /\ Len(prediction_history) = HISTORY_SIZE =>
            /\ Len(prediction_history') = HISTORY_SIZE
            /\ \A i \in 1..(HISTORY_SIZE - 1) :
                   prediction_history'[i] = prediction_history[i + 1]
            /\ prediction_history'[HISTORY_SIZE] = chamada'.gesto]_vars

\* A label was added to a full history that began with another label.
TestemunhaC10 ==
    /\ chamada.op = "processar_frame"
    /\ Aceita(chamada, min_confidence)
    /\ chamada.votos = HISTORY_SIZE
    /\ Len(prediction_history) = HISTORY_SIZE
    /\ prediction_history[HISTORY_SIZE] = chamada.gesto
    /\ prediction_history[1] # chamada.gesto

\* C2: while every accepted prediction since the recognizer was fresh carries
\* one label a, exactly one recognition has been reported, it is for a, and it
\* was reported by the frame of the first accepted prediction; before any
\* accepted prediction nothing is reported.
TeoremaC2 ==
    /\ padrao = <<>> => eventos = <<>>
    /\ \A a \in Labels :
         padrao = <<a>> =>
           /\ eventos = <<a>>
           /\ chamada.op = "processar_frame" /\ Aceita(chamada, min_confidence) =>
                (novo_reconhecimento <=> corrida = 1)

\* The same label has been accepted more often than the history is long, after
\* the first recognition, and the last frame accepted it once more.
TestemunhaC2 ==
    /\ padrao = <<"A">>
    /\ corrida > HISTORY_SIZE
    /\ eventos = <<"A">>
    /\ chamada.op = "processar_frame"
    /\ Aceita(chamada, min_confidence)
    /\ ~novo_reconhecimento

\* C3 (as stated): after a recognition of a label a and any number of further
\* accepted predictions of a, accepted predictions of another label b lead to
\* the next recognition, and that one is for b.
AfirmacaoC3 ==
    [][/\ FoiAceita
       /\ novo_reconhecimento'
       /\ ultimo_gesto # None
       /\ chamada'.gesto # ultimo_gesto
       /\ Colapsa(desde, chamada'.gesto) \in
             {<<chamada'.gesto>>, <<ultimo_gesto, chamada'.gesto>>}
       => ultimo_gesto' = chamada'.gesto]_vars

\* C3 (amended): after the first recognition of a fresh recognizer, of label a,
\* and any number of further accepted predictions of a, accepted predictions of
\* another label b lead to a second recognition, which is for b, at the latest
\* with the accepted prediction of b number HISTORY_SIZE.
TeoremaC3 ==
    \A a \in Labels, b \in Labels :
      padrao = <<a, b>> =>
        /\ eventos = <<a>> \/ eventos = <<a, b>>
        /\ corrida >= HISTORY_SIZE => eventos = <<a, b>>

\* The second recognition is reported for b only with the second accepted
\* prediction of b, because votes for a are still in the history.
TestemunhaC3 ==
    /\ padrao = <<"A", "B">>
    /\ corrida = 2
    /\ eventos = <<"A", "B">>
    /\ novo_reconhecimento
    /\ chamada.gesto = "B"
    /\ ultimo_gesto = "B"

\* C7: a recognition that follows another one comes after at least
\* SEQUENCE_LENGTH frames with hands, its own frame included.
TeoremaC7 ==
    [][novo_reconhecimento' /\ FoiFrame => presentes + 1 >= SEQUENCE_LENGTH]_vars

\* A second recognition, SEQUENCE_LENGTH frames with hands after the first.
TestemunhaC7 ==
    /\ chamada.op = "processar_frame"
    /\ novo_reconhecimento
    /\ Len(eventos) = 2
    /\ eventos # <<Muitos>>
    /\ chamada.tam = SEQUENCE_LENGTH - 1

\* C6 (as stated): in the scripted session the frame number SEQUENCE_LENGTH
\* reports (A, 0.9) and no later frame of the first part reports anything; the
\* absent frame number RESET_THRESHOLD + 1 leaves the buffer and the history
\* empty and ultimo_gesto at A; the frame number SEQUENCE_LENGTH of the last
\* part reports (B, 0.8), however many frames the first part had.
AfirmacaoC6 ==
    /\ cenario.fase = "A" /\ cenario.n < SEQUENCE_LENGTH => eventos = <<>>
    /\ cenario.fase = "A" /\ cenario.n = SEQUENCE_LENGTH =>
          novo_reconhecimento /\ eventos = <<"A">> /\ ultima_confianca = 90
    /\ cenario.fase = "A" /\ cenario.n > SEQUENCE_LENGTH =>
          ~novo_reconhecimento /\ eventos = <<"A">>
    /\ cenario.fase = "ausente" => eventos = <<"A">> /\ ultimo_gesto = "A"
    /\ cenario.fase = "ausente" /\ cenario.n = RESET_THRESHOLD + 1 =>
          buffer = <<>> /\ prediction_history = <<>>
    /\ cenario.fase = "B" /\ cenario.n < SEQUENCE_LENGTH => eventos = <<"A">>
    /\ cenario.fase = "B" /\ cenario.n = SEQUENCE_LENGTH =>
          /\ novo_reconhecimento
          /\ eventos = <<"A", "B">>
          /\ ultimo_gesto = "B"
          /\ ultima_confianca = 80

\* C6 (amended): as above, except that the history is empty after the absence,
\* and (B, 0.8) is reported by frame number SEQUENCE_LENGTH of the last part,
\* only when the first part had more than SEQUENCE_LENGTH frames; when the
\* absence follows the first recognition directly, the history keeps its vote
\* for A and (B, 0.8) is reported one frame later.
TeoremaC6 ==
    /\ cenario.fase = "A" /\ cenario.n < SEQUENCE_LENGTH => eventos = <<>>
    /\ cenario.fase = "A" /\ cenario.n = SEQUENCE_LENGTH =>
          novo_reconhecimento /\ eventos = <<"A">> /\ ultima_confianca = 90
    /\ cenario.fase = "A" /\ cenario.n > SEQUENCE_LENGTH =>
          ~novo_reconhecimento /\ eventos = <<"A">>
    /\ cenario.fase = "ausente" => eventos = <<"A">> /\ ultimo_gesto = "A"
    /\ cenario.fase = "ausente" /\ cenario.n = RESET_THRESHOLD + 1 =>
          /\ buffer = <<>>
          /\ prediction_history = IF cenario.extras > 0 THEN <<>> ELSE <<"A">>
    /\ cenario.fase = "B" /\ cenario.n < SEQUENCE_LENGTH => eventos = <<"A">>
    /\ cenario.fase = "B" /\ cenario.n = SEQUENCE_LENGTH =>
          IF cenario.extras > 0
          THEN /\ novo_reconhecimento
               /\ eventos = <<"A", "B">>
               /\ ultimo_gesto = "B"
               /\ ultima_confianca = 80
          ELSE ~novo_reconhecimento /\ eventos = <<"A">> /\ ultimo_gesto = "A"
    /\ cenario.fase = "B" /\ cenario.n = SEQUENCE_LENGTH + 1 =>
          /\ novo_reconhecimento <=> cenario.extras = 0
          /\ eventos = <<"A", "B">>
          /\ ultimo_gesto = "B"
          /\ ultima_confianca = 80

\* The last part reports (B, 0.8) on its frame number SEQUENCE_LENGTH, after a
\* first part in which the classifier was asked a second time.
TestemunhaC6 ==
    /\ cenario.fase = "B"
    /\ cenario.n = SEQUENCE_LENGTH
    /\ cenario.extras >= SEQUENCE_LENGTH
    /\ novo_reconhecimento
    /\ eventos = <<"A", "B">>
    /\ ultima_confianca = 80
    /\ prediction_history = <<"B">>

\* C11: reset() can be called in every state, and right after it the buffer
\* and the prediction history are empty, frames_sem_maos is 0, ultimo_gesto is
\* unset and ultima_confianca is 0: the state __init__ leaves (min_confidence,
\* the constructor's argument, is kept).
TeoremaC11 ==
    /\ ENABLED Reset
    /\ chamada.op = "reset" =>
         /\ buffer = <<>>
         /\ prediction_history = <<>>
         /\ frames_sem_maos = 0
         /\ ultimo_gesto = None
         /\ ultima_confianca = 0
         /\ min_confidence = MIN_CONFIDENCE

\* reset() has just been called on a recognizer that held samples and votes.
TestemunhaC11 ==
    /\ chamada.op = "reset"
    /\ chamada.tam > 0
    /\ chamada.votos > 0
    /\ buffer = <<>>
    /\ prediction_history = <<>>
    /\ ultimo_gesto = None

\* The call that led to the primed state asked the classifier, which raised.
FoiExcecao == FoiFrame /\ chamada'.gesto = Excecao

\* C12 (as stated): when the classifier raises during a frame, the loop keeps
\* running, the frame reports no recognition, and the buffer (with the sample
\* of the frame in it), the prediction history and ultimo_gesto are the ones
\* the inference step found.
AfirmacaoC12 ==
    [][FoiExcecao =>
         /\ laco' = "rodando"
         /\ ~novo_reconhecimento'
         /\ buffer' = DequeAppend(buffer, chamada'.amostra, SEQUENCE_LENGTH)
         /\ prediction_history' = prediction_history
         /\ ultimo_gesto' = ultimo_gesto]_vars

\* What the caller of the last processar_frame got from it: the fourth
\* component of the tuple tells a recognition from none, and a call that raised
\* returned no tuple.
Resultado ==
    IF chamada.gesto = Excecao THEN "Nenhum"
    ELSE IF novo_reconhecimento THEN "RecognizedEvent"
    ELSE "NoEvent"

\* C13 (as stated): every processar_frame call gives its caller exactly one of
\* NoEvent, RecognizedEvent and ErrorEvent, and it is RecognizedEvent exactly
\* when ultimo_gesto changed during the call.
AfirmacaoC13 ==
    [][FoiFrame =>
         /\ Resultado' \in {"NoEvent", "RecognizedEvent", "ErrorEvent"}
         /\ Resultado' = "RecognizedEvent" <=> ultimo_gesto' # ultimo_gesto]_vars

\* The buffer of the frame that led to the primed state, after the sample was
\* pushed (hands) or the absence test was made (no hands) and before any
\* inference.
JanelaAposPasso ==
    IF chamada'.maos
    THEN DequeAppend(buffer, chamada'.amostra, SEQUENCE_LENGTH)
    ELSE IF frames_sem_maos' > RESET_THRESHOLD /\ buffer # <<>> THEN <<>>
    ELSE buffer

\* C14 (as stated): in every frame, with or without hands, the classifier is
\* asked exactly when the buffer is full after the push / absence step.
AfirmacaoC14 ==
    [][FoiFrame =>
         (chamada'.inferiu <=> Len(JanelaAposPasso) = SEQUENCE_LENGTH)]_vars

\* C14 (amended): the classifier is asked exactly on the frames with hands
\* whose buffer is full after the push; it is never asked on a frame without
\* hands, full buffer or not, and never on a buffer that is not full.
TeoremaC14 ==
    [][FoiFrame =>
         /\ chamada'.inferiu <=>
               (chamada'.maos /\ Len(JanelaAposPasso) = SEQUENCE_LENGTH)
         /\ ~chamada'.maos => ~chamada'.inferiu
         /\ Len(JanelaAposPasso) < SEQUENCE_LENGTH => ~chamada'.inferiu]_vars

\* A frame without hands found the buffer full, left it full, and the
\* classifier was not asked.
TestemunhaC14 ==
    /\ chamada.op = "processar_frame"
    /\ ~chamada.maos
    /\ chamada.tam = SEQUENCE_LENGTH
    /\ Len(buffer) = SEQUENCE_LENGTH
    /\ ~chamada.inferiu
    /\ frames_sem_maos <= RESET_THRESHOLD

\* C15: frames_sem_maos counts the frames without hands since the last frame
\* with hands: it is 0 after every frame with hands, one more after every
\* frame without hands, before and after RESET_THRESHOLD has been passed and
\* whether or not the frame cleared anything, and it is never negative.
TeoremaC15 ==
    /\ [](frames_sem_maos \in Nat)
    /\ [][/\ FoiPresente => frames_sem_maos' = 0
          /\ FoiAusente => frames_sem_maos' = frames_sem_maos + 1]_vars

\* A frame without hands has taken the count two beyond RESET_THRESHOLD, past
\* the frame on which the buffer was cleared.
TestemunhaC15 ==
    /\ chamada.op = "processar_frame"
    /\ ~chamada.maos
    /\ frames_sem_maos = RESET_THRESHOLD + 2
    /\ buffer = <<>>
    /\ ultimo_gesto # None

\* C16: a frame without hands pushes nothing: it leaves the buffer as it is or
\* empties it, and while the count is at most RESET_THRESHOLD it leaves the
\* buffer, the prediction history, ultimo_gesto and ultima_confianca unchanged
\* and reports nothing; the first frame with hands after such an absence adds
\* its sample to the samples the buffer held before the absence.
TeoremaC16 ==
    [][/\ FoiAusente => buffer' \in {buffer, <<>>}
       /\ FoiAusente /\ frames_sem_maos' <= RESET_THRESHOLD =>
             /\ UNCHANGED <<buffer, prediction_history, ultimo_gesto, ultima_confianca>>
             /\ ~novo_reconhecimento'
       /\ FoiPresente /\ frames_sem_maos \in 1..RESET_THRESHOLD /\ ~novo_reconhecimento' =>
             buffer' = DequeAppend(buffer, chamada'.amostra, SEQUENCE_LENGTH)]_vars

\* The last frame without hands of a short absence (count = RESET_THRESHOLD)
\* has left a part-filled buffer, the votes and the last gesture in place.
TestemunhaC16 ==
    /\ chamada.op = "processar_frame"
    /\ ~chamada.maos
    /\ frames_sem_maos = RESET_THRESHOLD
    /\ Len(buffer) \in 1..(SEQUENCE_LENGTH - 1)
    /\ Len(buffer) = chamada.tam
    /\ prediction_history # <<>>
    /\ ultimo_gesto # None

\* Position of the first occurrence of g in the history h.
Primeiro(h, g) == CHOOSE i \in 1..Len(h) : h[i] = g /\ \A j \in 1..(i - 1) : h[j] # g

\* C17: the voted label occurs in the history, no label occurs more often, and
\* every other label that occurs as often was first seen later in the history
\* (oldest to newest) than the voted one.
TeoremaC17 ==
    saida # None =>
       /\ \E i \in 1..Len(entrada) : entrada[i] = saida
       /\ \A g \in Labels :
             /\ Contagem(entrada, g) <= Contagem(entrada, saida)
             /\ g # saida /\ Contagem(entrada, g) = Contagem(entrada, saida) =>
                   Primeiro(entrada, saida) < Primeiro(entrada, g)

\* A vote on a history of MaxVotos labels in which two labels tie and the
\* winner is not the most recent label.
TestemunhaC17 ==
    /\ saida # None
    /\ cenario.fase = "voto"
    /\ Len(entrada) = MaxVotos
    /\ \E g \in Labels : g # saida /\ Contagem(entrada, g) = Contagem(entrada, saida)
    /\ entrada[Len(entrada)] # saida
    /\ entrada[1] = saida

\* C18: for 0, 1, 2 or more detected hands of PONTOS_POR_MAO landmarks each the
\* sample has 2 * PONTOS_POR_MAO triples (3 values each): slot m (1 or 2)
\* holds the landmarks of the m-th detected hand, in order, x then y then z,
\* or zeros when fewer than m hands were detected; later hands leave no trace.
TeoremaC18 ==
    saida # <<>> =>
       /\ Len(saida) = 3 * 2 * PONTOS_POR_MAO
       /\ \A m \in 1..2, k \in 1..PONTOS_POR_MAO, c \in 1..3 :
             saida[3 * ((m - 1) * PONTOS_POR_MAO + (k - 1)) + c] =
                IF m <= Len(entrada) THEN entrada[m][k][c] ELSE 0

\* The sample of a detector result with three hands, the third unlike the
\* first two.
TestemunhaC18 ==
    /\ saida # <<>>
    /\ cenario.fase = "landmarks"
    /\ Len(entrada) = 3
    /\ entrada[3] # entrada[1]
    /\ entrada[3] # entrada[2]
    /\ entrada[1] # entrada[2]

\* C19: in a run of frames without hands the buffer and the prediction
\* history are cleared on no frame but the one that takes the count to
\* RESET_THRESHOLD + 1, and on that one only if the buffer holds something;
\* on every later frame of the run the buffer is empty and nothing but
\* frames_sem_maos changes.
TeoremaC19 ==
    /\ [](frames_sem_maos > RESET_THRESHOLD => buffer = <<>>)
    /\ [][/\ FoiAusente /\ <<buffer, prediction_history>>' # <<buffer, prediction_history>> =>
               /\ frames_sem_maos' = RESET_THRESHOLD + 1
               /\ buffer # <<>>
               /\ buffer' = <<>>
               /\ prediction_history' = <<>>
          /\ FoiAusente /\ frames_sem_maos' > RESET_THRESHOLD + 1 =>
               /\ UNCHANGED <<buffer, prediction_history, ultimo_gesto,
                              ultima_confianca, min_confidence>>
               /\ ~novo_reconhecimento']_vars

\* The second frame without hands after the one that cleared a buffer and a
\* history that held something: both are still empty.
TestemunhaC19 ==
    /\ chamada.op = "processar_frame"
    /\ ~chamada.maos
    /\ frames_sem_maos = RESET_THRESHOLD + 2
    /\ chamada.tam = 0
    /\ chamada.votos = 0
    /\ buffer = <<>>
    /\ prediction_history = <<>>
    /\ ultimo_gesto # None

\* C20: a frame with hands whose prediction is below min_confidence reports
\* nothing and leaves the prediction history, ultimo_gesto and ultima_confianca
\* unchanged; the buffer is full afterwards, and if it was full before it is
\* the old buffer without its oldest sample and with the new one at the end.
TeoremaC20 ==
    [][FoiPresente /\ chamada'.inferiu /\ chamada'.confianca < min_confidence =>
         /\ ~novo_reconhecimento'
         /\ UNCHANGED <<prediction_history, ultimo_gesto, ultima_confianca>>
         /\ Len(buffer') = SEQUENCE_LENGTH
         /\ buffer' = DequeAppend(buffer, chamada'.amostra, SEQUENCE_LENGTH)
         /\ Len(buffer) = SEQUENCE_LENGTH =>
               buffer' = Append(Tail(buffer), chamada'.amostra)]_vars

\* A rejected prediction on a full buffer whose oldest sample differs from the
\* new one, with votes in the history and a gesture already reported.
TestemunhaC20 ==
    /\ chamada.op = "processar_frame"
    /\ chamada.maos
    /\ chamada.inferiu
    /\ chamada.confianca < min_confidence
    /\ chamada.tam = SEQUENCE_LENGTH
    /\ Len(buffer) = SEQUENCE_LENGTH
    /\ buffer[SEQUENCE_LENGTH] = chamada.amostra
    /\ buffer[1] # chamada.amostra
    /\ ~novo_reconhecimento
    /\ prediction_history # <<>>
    /\ ultimo_gesto \notin {None, chamada.gesto}

\* C21: when the voted label of an accepted prediction is ultimo_gesto, the
\* frame reports nothing, ultimo_gesto and ultima_confianca stay, and the
\* buffer is not cleared: it is full, holding the sample of the frame; and a
\* frame with hands that finds a full buffer drops the oldest sample, adds its
\* own and asks the classifier again.
TeoremaC21 ==
    [][/\ FoiAceita /\ Suavizado = ultimo_gesto =>
             /\ ~novo_reconhecimento'
             /\ UNCHANGED <<ultimo_gesto, ultima_confianca>>
             /\ Len(buffer') = SEQUENCE_LENGTH
             /\ buffer' = DequeAppend(buffer, chamada'.amostra, SEQUENCE_LENGTH)
             /\ prediction_history' =
                   DequeAppend(prediction_history, chamada'.gesto, HISTORY_SIZE)
       /\ FoiPresente /\ Len(buffer) = SEQUENCE_LENGTH =>
             /\ chamada'.inferiu
             /\ ~novo_reconhecimento' =>
                   buffer' = Append(Tail(buffer), chamada'.amostra)]_vars

\* An accepted prediction of another label was outvoted by the label already
\* reported: nothing was reported and the buffer, full before, is full and
\* ends with the sample of the frame.
TestemunhaC21 ==
    /\ chamada.op = "processar_frame"
    /\ chamada.inferiu
    /\ chamada.confianca >= min_confidence
    /\ chamada.tam = SEQUENCE_LENGTH
    /\ ~novo_reconhecimento
    /\ ultimo_gesto \notin {None, chamada.gesto}
    /\ Len(buffer) = SEQUENCE_LENGTH
    /\ buffer[SEQUENCE_LENGTH] = chamada.amostra
    /\ buffer[1] # chamada.amostra

\* C25: without reset() two recognitions in a row never carry the same label,
\* whatever frames, absence resets and buffer clears lie between them: a
\* recognition always changes ultimo_gesto to a label, the label of the last
\* recognition is ultimo_gesto, and ultimo_gesto changes on a recognition or
\* on reset() only.
TeoremaC25 ==
    /\ [](eventos \notin {<<>>, <<Muitos>>} =>
             /\ eventos[Len(eventos)] = ultimo_gesto
             /\ \A i \in 1..(Len(eventos) - 1) : eventos[i] # eventos[i + 1])
    /\ [][/\ FoiFrame /\ novo_reconhecimento' =>
               ultimo_gesto' \in Labels \ {ultimo_gesto}
          /\ ultimo_gesto' # ultimo_gesto =>
               \/ FoiFrame /\ novo_reconhecimento'
               \/ chamada'.op = "reset"]_vars

\* The second recognition since the recognizer was fresh, on a buffer refilled
\* from empty, with votes of the first still in the history.
TestemunhaC25 ==
    /\ chamada.op = "processar_frame"
    /\ novo_reconhecimento
    /\ Len(eventos) = 2
    /\ eventos # <<Muitos>>
    /\ eventos[2] = ultimo_gesto
    /\ eventos[1] # eventos[2]
    /\ \E i \in 1..Len(prediction_history) : prediction_history[i] = eventos[1]

\* C26 (as stated): whenever more than RESET_THRESHOLD frames without hands
\* have gone by, the prediction history is empty.
AfirmacaoC26 == frames_sem_maos > RESET_THRESHOLD => prediction_history = <<>>

\* C26 (amended): whenever more than RESET_THRESHOLD frames without hands have
\* gone by, the buffer is empty; the prediction history is emptied by the
\* frame that takes the count past RESET_THRESHOLD only if the buffer holds a
\* sample then, and when the buffer is already empty (as right after a
\* recognition) the votes stay in the history through the whole absence.
TeoremaC26 ==
    /\ [](frames_sem_maos > RESET_THRESHOLD => buffer = <<>>)
    /\ [][FoiAusente /\ frames_sem_maos' > RESET_THRESHOLD =>
             prediction_history' = IF buffer # <<>> THEN <<>> ELSE prediction_history]_vars

\* A long absence that began right after a recognition: the count is past
\* RESET_THRESHOLD, the buffer was and is empty, the votes are still there.
TestemunhaC26 ==
    /\ chamada.op = "processar_frame"
    /\ ~chamada.maos
    /\ frames_sem_maos > RESET_THRESHOLD + 1
    /\ chamada.tam = 0
    /\ buffer = <<>>
    /\ prediction_history # <<>>
    /\ ultimo_gesto # None

\* The inner-loop iteration that led to the primed state handled a frame (ret true).
FoiColetaFrame ==
    /\ coleta.pc = "captura"
    /\ coleta'.pc # "fim"
    /\ coleta'.ultima.ret

\* C24: in the collection loop every saved row was saved while recording, under a
\* prompt of its own (at most one row per prompt), from at least MIN_FRAMES and at
\* most SEQUENCE_LENGTH captured frames, standardized to SEQUENCE_LENGTH frames
\* (captured frames first, zero frames after). An iteration with ESC, or with SPACE
\* stopping a recording of fewer than MIN_FRAMES frames, ends the prompt and saves
\* nothing; SPACE stopping a recording of MIN_FRAMES frames or more saves it; an
\* iteration without such a key in which the recording buffer reaches
\* SEQUENCE_LENGTH saves one row and ends the prompt; rows are saved one at a time
\* and only by an iteration that ends the prompt. An iteration starts with a
\* recording buffer below SEQUENCE_LENGTH; Ctrl-C ends the run and saves nothing,
\* also when it cuts short the iteration that fills the buffer.
TeoremaC24 ==
    /\ [](coleta.pc = "captura" /\ coleta.gravando =>
            Len(coleta.buffer) < SEQUENCE_LENGTH)
    /\ [][coleta.pc # "parado" /\ coleta'.pc = "fim" => coleta'.csv = coleta.csv]_vars
    /\ [](\A i \in 1..Len(coleta.csv) :
            LET r == coleta.csv[i] IN
            /\ r.gravando
            /\ r.capturados >= MIN_FRAMES
            /\ r.capturados <= SEQUENCE_LENGTH
            /\ Len(r.frames) = SEQUENCE_LENGTH
            /\ \A k \in 1..SEQUENCE_LENGTH :
                   IF k <= r.capturados THEN r.frames[k] \in Samples ELSE r.frames[k] = 0
            /\ \A j \in 1..Len(coleta.csv) : coleta.csv[j].prompt = r.prompt => j = i)
    /\ [][/\ FoiColetaFrame /\ coleta'.ultima.tecla = 27 =>
                coleta'.csv = coleta.csv /\ coleta'.pc = "prompt"
          /\ FoiColetaFrame /\ coleta'.ultima.tecla = 32 /\ coleta.gravando
               /\ Len(coleta'.buffer) < MIN_FRAMES =>
                coleta'.csv = coleta.csv /\ coleta'.pc = "prompt"
          /\ FoiColetaFrame /\ coleta'.ultima.tecla = 32 /\ coleta.gravando
               /\ Len(coleta'.buffer) >= MIN_FRAMES =>
                /\ Len(coleta'.csv) = Len(coleta.csv) + 1
                /\ coleta'.csv[Len(coleta'.csv)].capturados = Len(coleta'.buffer)
                /\ coleta'.pc = "prompt"
          /\ FoiColetaFrame /\ coleta'.ultima.tecla = 255 /\ coleta.gravando
               /\ Len(coleta'.buffer) >= SEQUENCE_LENGTH =>
                /\ Len(coleta'.csv) = Len(coleta.csv) + 1
                /\ coleta'.csv[Len(coleta'.csv)].capturados = SEQUENCE_LENGTH
                /\ coleta'.pc = "prompt"
          /\ coleta'.csv # coleta.csv =>
                /\ FoiColetaFrame
                /\ coleta.gravando
                /\ coleta'.pc = "prompt"
                /\ SubSeq(coleta'.csv, 1, Len(coleta.csv)) = coleta.csv
                /\ Len(coleta'.csv) = Len(coleta.csv) + 1]_vars

\* Two prompts were answered: the first recording ran to SEQUENCE_LENGTH frames and
\* was saved automatically, the second was stopped with SPACE at MIN_FRAMES frames.
TestemunhaC24 ==
    /\ Len(coleta.csv) = 2
    /\ coleta.csv[1].capturados = SEQUENCE_LENGTH
    /\ coleta.csv[2].capturados = MIN_FRAMES
    /\ coleta.csv[2].frames[SEQUENCE_LENGTH] = 0
    /\ coleta.ultima.tecla = 32
    /\ coleta.pc = "prompt"

\* The iteration of the legacy loop that led to the primed state handled a frame
\* with / without hands.
FoiLegadoPresente == legado.pc = "rodando" /\ legado'.ultima.ret /\ legado'.ultima.maos
FoiLegadoAusente == legado.pc = "rodando" /\ legado'.ultima.ret /\ ~legado'.ultima.maos

\* C27: in the legacy loop a gesture is recognized (ultimo_gesto changes and the
\* buffer is cleared) only by an iteration whose frame has a hand; an iteration
\* without hands adds no vote to historico_predicoes and recognizes nothing.
AfirmacaoC27 ==
    [][/\ legado'.ultimo_gesto # legado.ultimo_gesto => FoiLegadoPresente
       /\ FoiLegadoAusente =>
            /\ legado'.historico_predicoes = legado.historico_predicoes
            /\ legado'.ultimo_gesto = legado.ultimo_gesto
            /\ ~legado'.ultima.reconheceu]_vars

\* Pending proxima_letra callbacks.
Avancos(g) == Cardinality({i \in 1..Len(g.timers) : g.timers[i].cb = "proxima_letra"})

\* C29: in the GUI at most one atualizar_frame callback is pending at any time,
\* whatever the camera button, the camera and the timers do, and a handler
\* processes a frame only if the camera was running when it started (no frame
\* between parar_camera and the next iniciar_camera).
AfirmacaoC29 ==
    /\ [](gui.pc = "rodando" => Lacos(gui) <= 1)
    /\ [][gui.pc = "rodando" /\ gui'.processou => gui.running]_vars

\* C28: in the GUI a success never happens while the advance scheduled by an
\* earlier success is still pending, at most one proxima_letra callback is
\* pending at a time, and while the first level of a run is played (the score
\* is kept from one level to the next) the score is the points of the targets
\* already left behind plus those of the current target once its success is
\* recorded: no target counted twice, none passed over unrecognized.
AfirmacaoC28 ==
    /\ [](gui.pc = "rodando" => Avancos(gui) <= 1)
    /\ [][gui.pc = "rodando" /\ gui'.sucesso => Avancos(gui) = 0]_vars
    /\ [](gui.pc = "rodando" /\ gui.tela = "nivel" /\ gui.inicios = 1 =>
            gui.pontuacao = Pontos_(gui.nivel_atual)
                              * ((gui.letra_atual_idx - 1) + Avancos(gui)))

\* The handler that led to the primed state ran the classifier and got an answer.
FoiPredicao == gui.pc = "rodando" /\ gui'.inferiu /\ ~gui'.entrada.erro

\* C22: in the GUI a prediction whose confidence does not pass 0.7 leaves
\* historico_predicoes as it was, so it has no part in the majority label.
AfirmacaoC22 ==
    [][FoiPredicao /\ ~GuiPassa(gui'.entrada.confianca) =>
          gui'.historico_predicoes = gui.historico_predicoes]_vars

\* The handler that led to the primed state was atualizar_frame, it processed a
\* frame with hands that left the buffer full, and reconhecer_gesto ran.
FoiReconhecer ==
    /\ gui.pc = "rodando"
    /\ gui'.op = "atualizar_frame"
    /\ gui'.processou
    /\ gui'.entrada.maos
    /\ Len(DequeAppend(gui.buffer_gestos, gui'.entrada.amostra, SEQUENCE_LENGTH))
         = SEQUENCE_LENGTH

\* The vote that reconhecer_gesto compares with the target.
VotoGui ==
    MaisVotado(DequeAppend(gui.historico_predicoes, Normaliza(gui'.entrada.gesto),
                           HISTORY_SIZE))

\* C23: when reconhecer_gesto runs in the GUI, the step is a success exactly
\* when the classifier answered, the confidence is above 0.7 and the majority
\* label of the history (with the new normalized label) equals the normalized
\* target. A success adds 10 x nivel_atual to the score, empties buffer_gestos
\* and historico_predicoes and schedules exactly one proxima_letra, 1500 ms
\* ahead; in every other case the score, the target and the buffer (with the
\* frame just appended) are unchanged and no advance is scheduled. A handler that
\* does not run reconhecer_gesto never changes the score. The labels kept in the
\* history carry no hand suffix.
TeoremaC23 ==
    /\ [](gui.pc = "rodando" =>
            \A i \in 1..Len(gui.historico_predicoes) :
               \A k \in 1..Len(gui.historico_predicoes[i]) :
                  gui.historico_predicoes[i][k] \notin {"_DIR", "_ESQ"})
    /\ [][/\ FoiReconhecer =>
               LET ok == /\ gui.modelo
                         /\ ~gui'.entrada.erro
                         /\ gui'.entrada.confianca > MIN_CONFIDENCE
                         /\ VotoGui = Normaliza(gui.gesto_alvo)
               IN
               /\ gui'.sucesso <=> ok
               /\ ok => /\ gui'.pontuacao = gui.pontuacao + 10 * gui.nivel_atual
                        /\ gui'.buffer_gestos = <<>>
                        /\ gui'.historico_predicoes = <<>>
                        /\ gui'.gesto_alvo = gui.gesto_alvo
                        /\ Avancos(gui') = Avancos(gui) + 1
                        /\ \E i \in 1..Len(gui'.timers) :
                               /\ gui'.timers[i].cb = "proxima_letra"
                               /\ gui'.timers[i].em = ATRASO_PROXIMA
               /\ ~ok => /\ gui'.pontuacao = gui.pontuacao
                         /\ gui'.gesto_alvo = gui.gesto_alvo
                         /\ gui'.buffer_gestos =
                               DequeAppend(gui.buffer_gestos, gui'.entrada.amostra,
                                           SEQUENCE_LENGTH)
                         /\ Avancos(gui') = Avancos(gui)
          /\ (gui.pc = "rodando" /\ ~FoiReconhecer) => gui'.pontuacao = gui.pontuacao]_vars

\* A success on a label with a hand suffix: the classifier answered B_ESQ for the
\* target B, and the score of the second target was added to that of the first.
TestemunhaC23 ==
    /\ gui.pc = "rodando"
    /\ gui.sucesso
    /\ gui.entrada.gesto = <<"B", "_ESQ">>
    /\ gui.gesto_alvo = <<"B">>
    /\ gui.pontuacao = 20
    /\ gui.buffer_gestos = <<>>
    /\ Avancos(gui) = 1

\* x is an entry of the list.
Em(lista, x) == \E i \in 1..Len(lista) : lista[i] = x

\* C30: in the GUI secoes_liberadas only grows at its end; every section in it
\* other than 'Alfabeto' has the final level of the section just before it in
\* niveis_completos, and enters only in a call of proxima_letra that went past
\* the last target of that final level; niveis_completos of a section changes
\* only by such a call appending the current level of the current section,
\* every target of that level shown (letra_atual_idx at the end of
\* letras_nivel), and never holds a level twice. The call is a callback of its
\* own or runs inside the handler that opened the error box.
TeoremaC30 ==
    /\ [](gui.pc = "rodando" =>
            /\ gui.secoes_liberadas[1] = "Alfabeto"
            /\ \A i \in 1..Len(gui.secoes_liberadas) :
                 LET s == gui.secoes_liberadas[i] IN
                 s # "Alfabeto" =>
                    LET ant == SECOES[IndiceSecao(s) - 1] IN
                    Em(gui.niveis_completos[ant], Len(Secoes(ant)))
            /\ \A k \in 1..Len(SECOES) :
                 LET l == gui.niveis_completos[SECOES[k]] IN
                 \A i, j \in 1..Len(l) : l[i] = l[j] => i = j)
    /\ [][gui.pc = "rodando" =>
            /\ Len(gui'.secoes_liberadas) >= Len(gui.secoes_liberadas)
            /\ SubSeq(gui'.secoes_liberadas, 1, Len(gui.secoes_liberadas))
                 = gui.secoes_liberadas
            /\ gui'.secoes_liberadas # gui.secoes_liberadas =>
                 /\ gui'.completou
                 /\ gui'.nivel_atual = Len(Secoes(gui'.secao_atual))
                 /\ gui'.letra_atual_idx = Len(gui'.letras_nivel)
                 /\ gui'.secoes_liberadas =
                      Append(gui.secoes_liberadas, SECOES[IndiceSecao(gui'.secao_atual) + 1])
            /\ \A k \in 1..Len(SECOES) :
                 LET s == SECOES[k] IN
                 gui'.niveis_completos[s] # gui.niveis_completos[s] =>
                    /\ gui'.completou
                    /\ s = gui'.secao_atual
                    /\ gui'.letras_nivel = Secoes(s)[gui'.nivel_atual]
                    /\ gui'.letra_atual_idx = Len(gui'.letras_nivel)
                    /\ gui'.niveis_completos[s] =
                         Append(gui.niveis_completos[s], gui'.nivel_atual)]_vars

\* The third section was released by completing the only level of the second,
\* itself released by level 2 of 'Alfabeto'.
TestemunhaC30 ==
    /\ gui.pc = "rodando"
    /\ gui.op = "proxima_letra"
    /\ gui.tela = "parabens"
    /\ gui.secoes_liberadas = <<"Alfabeto", "Numeros", "Dias">>
    /\ gui.niveis_completos["Alfabeto"] = <<1, 2>>
    /\ gui.niveis_completos["Numeros"] = <<1>>

====
